---- MODULE Spec2Model ----
(***************************************************************************)
(* Model of the Mochimo mesh API client: the JSON client (api.ts), the     *)
(* construction pipeline of TransactionBuilder (transaction.ts) and the    *)
(* mempool monitor waitForTransaction.                                     *)
(*                                                                         *)
(* One behaviour is one call of a public method by a caller.  Every await  *)
(* of the code is one action: the action takes the outcome the remote      *)
(* node (or the timer) produces and runs the code up to the next await.    *)
(***************************************************************************)
EXTENDS Integers, Sequences, FiniteSets, TLC

VARIABLES
    pc,         \* position of the running call: the await it is suspended at
    entry,      \* the public method the caller invoked
    params,     \* buildTransaction's params argument
    operations, \* buildTransaction: const operations
    preResp,    \* buildTransaction: const preprocessResponse
    metaResp,   \* buildTransaction: const metadataResponse
    buildRes,   \* buildAndSignTransaction: const buildResult
    sigs,       \* buildAndSignTransaction: the [sig] list given to combine
    combined,   \* buildAndSignTransaction: const combined
    signedArg,  \* submitAndMonitor: its signedTransaction argument
    outcome,    \* what the caller's promise settled to
    trace,      \* history: the requests fetch was given and how each settled
    now,        \* Date.now()
    startTime,  \* waitForTransaction: const startTime
    wHash,      \* waitForTransaction: transactionHash argument
    wTimeout,   \* waitForTransaction: timeout argument
    wInterval,  \* waitForTransaction: interval argument
    cTimeout,   \* submitAndMonitor: its timeout argument
    nLookups,   \* history: getMempoolTransaction calls issued by the monitor
    nSleeps,    \* history: setTimeout sleeps started by the monitor
    lookHash,   \* history: hash of the last lookup request
    lastRes,    \* history: how the last completed lookup settled
    found,      \* history: the body of the lookup that succeeded
    lastEv,     \* history: the await the monitor last started
    sleepReq,   \* history: delay given to the last setTimeout
    lastAwait,  \* history: duration of the last completed await
    retried,    \* history: failure kinds after which a lookup was issued again
    lookReq,    \* history: the request of the last lookup
    client,     \* the MochimoApiClient: its baseUrl and networkIdentifier
    runs,       \* interleaved buildTransaction calls: each call's locals
    sent,       \* history: per call, the requests it made and how they settled
    memoCall,   \* the memo function that was called: isValidMemo or formatMemo
    memoArg,    \* its memo argument
    memoRet,    \* what it returned
    bytesCall,  \* the encoder that was called: createTransactionBytes or createSignature
    bytesArg,   \* its arguments
    bytesRet    \* what it returned or threw

vars == <<pc, entry, params, operations, preResp, metaResp, buildRes, sigs,
          combined, signedArg, outcome, trace, now, startTime, wHash,
          wTimeout, wInterval, cTimeout, nLookups, nSleeps, lookHash, lastRes,
          found, lastEv, sleepReq, lastAwait, retried, lookReq, client,
          runs, sent, memoCall, memoArg, memoRet, bytesCall, bytesArg,
          bytesRet>>

pipeVars == <<params, operations, preResp, metaResp, buildRes, sigs, combined,
              signedArg>>
monVars  == <<now, startTime, wHash, wTimeout, wInterval, nLookups, nSleeps,
              lookHash, lastRes, found, lastEv, sleepReq, lastAwait, retried,
              lookReq>>
\* the state outside the running call of the pipeline or the monitor
memoVars == <<memoCall, memoArg, memoRet>>
bytesVars == <<bytesCall, bytesArg, bytesRet>>
outerVars == <<client, runs, sent, memoVars, bytesVars>>

(***************************************************************************)
(* Bounds of the model.                                                    *)
(***************************************************************************)
MaxAmount   == 1   \* amounts and fees range over -1..MaxAmount
MaxTimeout  == 3   \* timeouts given to waitForTransaction: -1..MaxTimeout
MaxInterval == 2   \* intervals given to waitForTransaction: 1..MaxInterval
MaxLatency  == 3   \* a lookup takes 0..MaxLatency ms
MaxJitter   == 1   \* a timer fires 0..MaxJitter ms late
MaxStart    == 1   \* Date.now() at the call: 0..MaxStart
MaxPolls    == 2   \* submitAndMonitor timeouts: up to MaxPolls default intervals
MaxRuns     == 2   \* buildTransaction calls interleaved on one client
MaxMemoLen  == 3   \* every string over Chars up to this length is a memo input
MaxLongMemo == 17  \* the long memo inputs have lengths up to this
MaxHexBytes == 100 \* the longest hex strings createTransactionBytes is given, in bytes
MaxRawMemo  == 33  \* the longest memo createTransactionBytes is given
MaxSigBytes == 2   \* createSignature is given every byte string up to this length

(***************************************************************************)
(* Program constants.                                                      *)
(***************************************************************************)
DefaultInterval == 1000
DefaultSourceBalance == 179999501
TxBufferSize == 2304

\* the base URLs a client is constructed with
BaseUrls == {"http://node-a:8081", "https://node-b"}

MCM_CURRENCY == [symbol |-> "MCM", decimals |-> 9]
NETWORK_IDENTIFIER == [blockchain |-> "mochimo", network |-> "mainnet"]

(***************************************************************************)
(* JavaScript values.  An optional argument is <<>> when omitted and <<v>>  *)
(* when given; a missing object field reads as Undefined; n.toString() of  *)
(* a number or bigint is its canonical decimal string, written Dec(n).     *)
(***************************************************************************)
Undefined == "undefined"
None == <<>>
Some(v) == <<v>>
Dec(n) == <<"dec", n>>
Get(obj, f) == IF f \in DOMAIN obj THEN obj[f] ELSE Undefined
Falsy(v) == v \in {Undefined, ""}

Unset == [unset |-> TRUE]


(***************************************************************************)
(* Errors.  An error is an object with a message; isError is the outcome   *)
(* of `instanceof Error`.  A message is the tuple of the pieces the code   *)
(* concatenates.                                                           *)
(***************************************************************************)
Err(msg) == [isError |-> TRUE, message |-> msg]

\* what fetch rejects with when the network call itself fails
TransportErrors == {Err(<<"fetch failed">>), Err(<<"The operation was aborted">>)}
\* what response.json() rejects with when the body is not JSON
JsonSyntaxError == Err(<<"Unexpected token in JSON">>)

(***************************************************************************)
(* The remote node.  A request settles in one of three ways: fetch         *)
(* rejects, the body is not JSON, or the body is a JSON object.  A JSON    *)
(* object is a record; an error envelope is one with a `code` field.       *)
(***************************************************************************)
ServerMessages == {"Invalid request", "Transaction not found"}
Envelopes == {[code |-> 1, message |-> m, retriable |-> FALSE] : m \in ServerMessages}

PreprocessBodies ==
    {[options |-> "opt1", required_public_keys |-> "rpk"],
     [options |-> "opt2", required_public_keys |-> "rpk"],
     [required_public_keys |-> "rpk"]}
MetadataBodies ==
    {[metadata |-> "md1", suggested_fee |-> "sf"],
     [metadata |-> "md2", suggested_fee |-> "sf"]}
\* the last two are bodies a node should not send: two signing payloads,
\* and no unsigned transaction
PayloadsBodies ==
    {[unsigned_transaction |-> "utx1", payloads |-> <<"pl1">>],
     [unsigned_transaction |-> "utx2", payloads |-> <<"pl2">>],
     [unsigned_transaction |-> "utx1", payloads |-> <<"pl1", "pl2">>],
     [payloads |-> <<"pl1">>]}
CombineBodies ==
    {[signed_transaction |-> "stx1"], [signed_transaction |-> "stx2"]}
Hashes == {"h1", "h2"}
SubmitBodies ==
    {[transaction_identifier |-> [hash |-> h]] : h \in Hashes \cup {""}}
    \cup {[transaction_identifier |-> [other |-> "x"]], [metadata |-> "m"]}
MempoolTxBodies ==
    {[transaction |-> "tx1"], [transaction |-> "tx2", metadata |-> "m"]}

\* what the other endpoints answer (the client hands it on as it is)
OtherBodies == {[result |-> "r1"], [result |-> "r2", idempotent |-> TRUE]}

ValueBodies(ep) ==
    CASE ep = "/construction/preprocess" -> PreprocessBodies
      [] ep = "/construction/metadata"   -> MetadataBodies
      [] ep = "/construction/payloads"   -> PayloadsBodies
      [] ep = "/construction/combine"    -> CombineBodies
      [] ep = "/construction/submit"     -> SubmitBodies
      [] ep = "/mempool/transaction"     -> MempoolTxBodies
      [] OTHER                           -> OtherBodies

\* every way a request to ep can settle
Outcomes(ep) ==
    {[kind |-> "reject", err |-> e] : e \in TransportErrors}
    \cup {[kind |-> "unparsable"]}
    \cup {[kind |-> "body", body |-> b] : b \in ValueBodies(ep) \cup Envelopes}

\* response.status of the Response that fetch resolves with
HttpStatuses == {200, 500}

\* every way a request to ep can settle, the HTTP status of the response
\* recorded with its body
StatusOutcomes(ep) ==
    {o \in Outcomes(ep) : o.kind # "body"}
    \cup {[kind |-> "body", status |-> s, body |-> b] :
              s \in HttpStatuses, b \in ValueBodies(ep) \cup Envelopes}

(***************************************************************************)
(* MochimoApiClient.handleResponse and makeRequest.  The result of a call  *)
(* is [ok |-> TRUE, val] when the promise resolves and [ok |-> FALSE, err] *)
(* when it rejects.                                                        *)
(***************************************************************************)
Resolve(v) == [ok |-> TRUE, val |-> v]
Reject(e)  == [ok |-> FALSE, err |-> e]

\* mutant of HandleResponse: the `code` field is not looked at
HandleResponseNoCode(o) ==
    IF o.kind = "unparsable" THEN Reject(JsonSyntaxError) ELSE Resolve(o.body)

\* mutant of HandleResponse: the error does not carry the server's message
HandleResponseGeneric(o) ==
    IF o.kind = "unparsable" THEN Reject(JsonSyntaxError)
    ELSE IF "code" \in DOMAIN o.body
         THEN Reject(Err(<<"Rosetta API Error">>))
         ELSE Resolve(o.body)

\* mutant of HandleResponse: a response whose status is an error status is
\* rejected before its body is looked at
HandleResponseChecksStatus(o) ==
    IF "status" \in DOMAIN o /\ o.status >= 400
    THEN Reject(Err(<<"HTTP error">>))
    ELSE IF o.kind = "unparsable" THEN Reject(JsonSyntaxError)
    ELSE IF "code" \in DOMAIN o.body
         THEN Reject(Err(<<"Rosetta API Error: ", o.body.message>>))
         ELSE Resolve(o.body)

HandleResponse(o) ==
    IF o.kind = "unparsable" THEN Reject(JsonSyntaxError)
    ELSE IF "code" \in DOMAIN o.body
         THEN Reject(Err(<<"Rosetta API Error: ", o.body.message>>))
         ELSE Resolve(o.body)

\* mutant of MakeRequest: the error of fetch is wrapped in a new error
MakeRequestWraps(o) ==
    IF o.kind = "reject"
    THEN Reject(Err(<<"Request failed: ">> \o o.err.message))
    ELSE HandleResponse(o)

MakeRequest(o) ==
    IF o.kind = "reject" THEN Reject(o.err) ELSE HandleResponse(o)

\* how a lookup settled, as the monitor's history records it
Kind(o) ==
    CASE o.kind = "reject" -> "transport"
      [] o.kind = "unparsable" -> "unparsable"
      [] o.kind = "body" /\ "code" \in DOMAIN o.body -> "envelope"
      [] OTHER -> "found"

\* fetch(`${this.baseUrl}${endpoint}`, {method: 'POST', body: JSON.stringify(body)})
Req(ep, body) ==
    [t |-> "req", ep |-> ep, method |-> "POST", url |-> <<client.baseUrl, ep>>,
     body |-> body]
Ret(ep, o, r) == [t |-> "ret", ep |-> ep, out |-> o, res |-> r]

\* the request bodies of the construction methods, with this.networkIdentifier
PreprocessBody(ops, md) ==
    [network_identifier |-> client.networkIdentifier, operations |-> ops, metadata |-> md]
MetadataBody(options, pks) ==
    [network_identifier |-> client.networkIdentifier, options |-> options, public_keys |-> pks]
PayloadsBody(ops, md, pks) ==
    [network_identifier |-> client.networkIdentifier, operations |-> ops, metadata |-> md,
     public_keys |-> pks]
\* mutant of CombineBody: the signature is listed twice
CombineBodyTwice(utx, sg) ==
    [network_identifier |-> client.networkIdentifier, unsigned_transaction |-> utx,
     signatures |-> sg \o sg]
CombineBody(utx, sg) ==
    [network_identifier |-> client.networkIdentifier, unsigned_transaction |-> utx,
     signatures |-> sg]
SubmitBody(stx) ==
    [network_identifier |-> client.networkIdentifier, signed_transaction |-> stx]
\* mutant of MempoolTxBody: the network identifier is left out
MempoolTxBodyNoNetwork(h) == [transaction_identifier |-> [hash |-> h]]
MempoolTxBody(h) ==
    [network_identifier |-> client.networkIdentifier, transaction_identifier |-> [hash |-> h]]


(***************************************************************************)
(* utils/memo: isValidMemo and formatMemo.  A string is the sequence of    *)
(* its characters; CharCode is charCodeAt.                                 *)
(***************************************************************************)
Chars == {"A", "B", "C", "D", "E", "F", "Z", "0", "9", "-", "a", "@", "[", "/", ":"}
\* the characters the exhaustive memo inputs are made of
MemoChars == {"A", "Z", "0", "9", "-", "a", "@", "[", "/", ":"}
CharCode ==
    [c \in Chars |->
        CASE c = "A" -> 65 [] c = "B" -> 66 [] c = "C" -> 67 [] c = "D" -> 68
          [] c = "E" -> 69 [] c = "F" -> 70 [] c = "Z" -> 90
          [] c = "0" -> 48 [] c = "9" -> 57 [] c = "-" -> 45
          [] c = "a" -> 97 [] c = "@" -> 64 [] c = "[" -> 91
          [] c = "/" -> 47 [] c = ":" -> 58]

Min(a, b) == IF a <= b THEN a ELSE b

\* the character classes [A-Z], [0-9] and [A-Z0-9-] of the regular expressions
UpperCodes == 65..90
DigitCodes == 48..57
MemoCodes  == UpperCodes \cup DigitCodes \cup {45}
IsUpper(c) == CharCode[c] \in UpperCodes
IsDigit(c) == CharCode[c] \in DigitCodes
IsDash(c)  == CharCode[c] = 45
\* /^[class]+$/.test(str), the class given by its character codes
TestPlus(str, class) ==
    str # <<>> /\ \A i \in DOMAIN str : CharCode[str[i]] \in class

\* str.split('-'): the pieces between the dashes, empty ones included
RECURSIVE SplitFrom(_, _, _)
SplitFrom(str, i, piece) ==
    IF i > Len(str) THEN <<piece>>
    ELSE IF IsDash(str[i]) THEN <<piece>> \o SplitFrom(str, i + 1, <<>>)
    ELSE SplitFrom(str, i + 1, Append(piece, str[i]))
Split(str) == SplitFrom(str, 1, <<>>)

\* mutant of SameKindAsPrevious: consecutive groups are not compared
SameKindNeverChecked(isLetters, prevIsLetters) == FALSE
\* if (isLetters === prevIsLetters) return false
SameKindAsPrevious(isLetters, prevIsLetters) == isLetters = prevIsLetters

\* the loop over the groups, from index i (groups[i + 1] in the code)
RECURSIVE GroupsLoop(_, _)
GroupsLoop(groups, i) ==
    IF i > Len(groups) THEN TRUE
    ELSE LET group == groups[i]
             isLetters == TestPlus(group, UpperCodes)
             isNumbers == TestPlus(group, DigitCodes)
         IN  IF group = <<>> THEN FALSE
             ELSE IF ~isLetters /\ ~isNumbers THEN FALSE
             ELSE IF i > 1 /\ SameKindAsPrevious(isLetters,
                                                 TestPlus(groups[i - 1], UpperCodes))
                  THEN FALSE
             ELSE GroupsLoop(groups, i + 1)

IsValidMemo(memo) ==
    IF memo = <<>> THEN TRUE
    ELSE IF ~TestPlus(memo, MemoCodes) THEN FALSE
    ELSE IF IsDash(memo[1]) \/ IsDash(memo[Len(memo)]) THEN FALSE
    ELSE GroupsLoop(Split(memo), 1)

\* Buffer.from(memo, 'ascii'): one byte per character
AsciiBytes(str) == [i \in DOMAIN str |-> CharCode[str[i]] % 256]
\* mutant of CopyLength: one byte less is kept for the memo
CopyLengthShort(n) == Min(n, 14)
\* Math.min(memoBytes.length, 15)
CopyLength(n) == Min(n, 15)

\* the 16 bytes formatMemo returns, at offsets 0..15
FormatMemo(memo) ==
    LET result == [i \in 0..15 |-> 0] IN
    IF memo = <<>> \/ ~IsValidMemo(memo) THEN result
    ELSE LET memoBytes == AsciiBytes(memo)
             copyLength == CopyLength(Len(memoBytes))
             copied == [i \in 0..15 |-> IF i < copyLength THEN memoBytes[i + 1]
                                        ELSE result[i]]
         IN  [copied EXCEPT ![copyLength] = 0]

\* the memos the two functions are given: every string over MemoChars up to
\* MaxMemoLen characters, and longer ones: "AAAA..." and "AZ-09-AZ-09-..."
PatternChar(i) ==
    CASE i % 6 = 1 -> "A" [] i % 6 = 2 -> "Z" [] i % 6 = 4 -> "0"
      [] i % 6 = 5 -> "9" [] OTHER -> "-"
MemoInputs ==
    UNION {[1..n -> MemoChars] : n \in 0..MaxMemoLen}
    \cup {[i \in 1..n |-> "A"] : n \in 1..MaxLongMemo}
    \cup {[i \in 1..n |-> PatternChar(i)] : n \in 1..MaxLongMemo}

(***************************************************************************)
(* Bytes and hex strings.  A Buffer or Uint8Array filled from a string or  *)
(* an array is the sequence of its bytes; a hex string is the sequence of  *)
(* its characters.                                                         *)
(***************************************************************************)
HexDigits == <<"0", "1", "2", "3", "4", "5", "6", "7", "8", "9",
               "a", "b", "c", "d", "e", "f">>
\* the value of a hex digit of either case, -1 for any other character
HexValue(c) ==
    CASE c = "0" -> 0 [] c = "1" -> 1 [] c = "2" -> 2 [] c = "3" -> 3
      [] c = "4" -> 4 [] c = "5" -> 5 [] c = "6" -> 6 [] c = "7" -> 7
      [] c = "8" -> 8 [] c = "9" -> 9
      [] c \in {"a", "A"} -> 10 [] c \in {"b", "B"} -> 11
      [] c \in {"c", "C"} -> 12 [] c \in {"d", "D"} -> 13
      [] c \in {"e", "E"} -> 14 [] c \in {"f", "F"} -> 15
      [] OTHER -> -1

\* mutant of Hex: the two digits of a byte are written low nibble first
HexSwapped(bytes) ==
    [i \in 1..(2 * Len(bytes)) |->
        IF i % 2 = 1 THEN HexDigits[(bytes[(i + 1) \div 2] % 16) + 1]
        ELSE HexDigits[(bytes[i \div 2] \div 16) + 1]]
\* Buffer.from(bytes).toString('hex'): two lower-case digits per byte
Hex(bytes) ==
    [i \in 1..(2 * Len(bytes)) |->
        IF i % 2 = 1 THEN HexDigits[(bytes[(i + 1) \div 2] \div 16) + 1]
        ELSE HexDigits[(bytes[i \div 2] % 16) + 1]]

\* Buffer.from(str, 'hex'): one byte per pair of hex digits; decoding stops
\* at the first pair that is not two hex digits, and a last single
\* character is dropped
HexDecode(str) ==
    LET pairs == Len(str) \div 2
        IsPair(k) == HexValue(str[2 * k - 1]) >= 0 /\ HexValue(str[2 * k]) >= 0
        n == CHOOSE m \in 0..pairs :
                 /\ \A k \in 1..m : IsPair(k)
                 /\ m = pairs \/ ~IsPair(m + 1)
    IN  [k \in 1..n |-> 16 * HexValue(str[2 * k - 1]) + HexValue(str[2 * k])]

\* "0x" + str
With0x(str) == <<"0", "x">> \o str
\* str.startsWith('0x')
StartsWith0x(str) == Len(str) >= 2 /\ str[1] = "0" /\ str[2] = "x"
\* mutant of StripPrefix: the prefix is left in place
StripPrefixKeeps(str) == str
\* str.startsWith('0x') ? str.slice(2) : str
StripPrefix(str) == IF StartsWith0x(str) THEN SubSeq(str, 3, Len(str)) ELSE str

\* Buffer.from(str): the UTF-8 bytes, one per character for the ASCII
\* characters of Chars
Utf8Bytes(str) == [i \in DOMAIN str |-> CharCode[str[i]]]

\* A write into a buffer is told by the offsets it covers and the byte it
\* leaves at each of them; a buffer is its bytes at offsets 0..size-1.
\* source.copy(target, targetStart, 0, sourceEnd) writes offset i of the
\* target of target bytes: the bytes 0..sourceEnd-1 of source go to
\* targetStart onwards, as many as there are and as fit
CopyCovers(source, target, targetStart, sourceEnd, i) ==
    /\ i >= targetStart /\ i < target
    /\ i - targetStart < Min(sourceEnd, Len(source))
CopyByte(source, targetStart, i) == source[i - targetStart + 1]

\* byte k of the little-endian form of n
RECURSIVE LEByte(_, _)
LEByte(n, k) == IF k = 0 THEN n % 256 ELSE LEByte(n \div 256, k - 1)
\* buf.writeUInt32LE(value, offset) and buf.writeBigUInt64LE(value, offset)
\* write the offsets offset..offset+width-1
WriteCovers(offset, width, i) == i >= offset /\ i < offset + width
\* mutant of WriteByteLE: the bytes are written big-endian
WriteByteBE(value, offset, width, i) == LEByte(value, offset + width - 1 - i)
WriteByteLE(value, offset, width, i) == LEByte(value, i - offset)

(***************************************************************************)
(* TransactionBuilder.buildTransaction: the synchronous part.              *)
(***************************************************************************)
Amounts == -1..MaxAmount
\* no memo, "", "AB-00-EF" and "AB-CD"
Memos == {None, Some(<<>>), Some(<<"A", "B", "-", "0", "0", "-", "E", "F">>),
          Some(<<"A", "B", "-", "C", "D">>)}

\* what the wallets hold: n bytes, none of them zero, that differ from wallet
\* to wallet
PatternBytes(n, seed) == [i \in 1..n |-> ((50 * seed + i) % 255) + 1]
\* sourceWallet.getAddress(): 40 bytes
SourceWalletAddress == PatternBytes(40, 1)
\* changeWallet.getAddrHash(): 20 bytes
ChangeWalletAddrHash == PatternBytes(20, 2)
\* the destination tag of the tests: "0x" and the hex of the 20 bytes of
\* destWallet.getAddrTag()
DestinationTag == With0x(Hex(PatternBytes(20, 3)))
\* 'invalid', the string the tests give for a parameter that is not hex
InvalidString == <<"i", "n", "v", "a", "l", "i", "d">>

\* the params a caller may give buildTransaction; the caller may leave
\* sourceAddress out
BuildParams ==
    LET given == [sourceTag : {"0xsrctag"},
                  sourceAddress : {With0x(Hex(SourceWalletAddress)), InvalidString},
                  destinationTag : {DestinationTag}, amount : Amounts, fee : Amounts,
                  publicKey : {"pubkey"}, changePk : {With0x(Hex(ChangeWalletAddrHash))},
                  memo : Memos, blockToLive : {0, -1},
                  sourceBalance : {None, Some(0), Some(7)}]
    IN  given \cup {[f \in DOMAIN p \ {"sourceAddress"} |-> p[f]] : p \in given}

\* createTransactionBytes throws: startsWith of undefined is a TypeError,
\* writeBigUInt64LE and writeUInt32LE throw a RangeError outside their range
\* (the ranges are 0..2^64-1 and 0..2^32-1, the upper ends written by 16-bit
\* halves; every integer of the model is below 2^31, so only the lower end
\* can be left)
InUInt64(n) == n >= 0 /\ ((n \div 65536) \div 65536) \div 65536 <= 65535
InUInt32(n) == n >= 0 /\ n \div 65536 <= 65535

\* mutant of CreateTransactionBytesThrows: the numbers are written unchecked
CreateTransactionBytesThrowsUnchecked(p) == "sourceAddress" \notin DOMAIN p
CreateTransactionBytesThrows(p) ==
    \/ "sourceAddress" \notin DOMAIN p
    \/ ~InUInt64(p.amount)
    \/ ~InUInt64(p.fee)
    \/ ~InUInt32(p.blockToLive)

CreateTransactionBytesError(p) ==
    IF "sourceAddress" \notin DOMAIN p
    THEN Err(<<"Cannot read properties of undefined (reading 'startsWith')">>)
    ELSE Err(<<"The value of \"value\" is out of range.">>)

\* the buffer createTransactionBytes returns when it does not throw: 2304
\* bytes, zero where nothing is written; the writes are made in the order
\* version, source address, change address, destination address, amount,
\* fee, block to live, memo, so each offset keeps the last write covering it
CreateTransactionBytes(p) ==
    LET sourceAddr == HexDecode(StripPrefix(p.sourceAddress))
        destAddr == HexDecode(StripPrefix(p.destinationTag))
        changePk == HexDecode(StripPrefix(p.changePk))
        hasMemo == ~(p.memo = None \/ p.memo = Some(<<>>))
        memoBuffer == IF hasMemo THEN Utf8Bytes(p.memo[1]) ELSE <<>>
    IN  [i \in 0..(TxBufferSize - 1) |->
            IF hasMemo /\ CopyCovers(memoBuffer, TxBufferSize, 144,
                                     Min(Len(memoBuffer), 32), i)
            THEN CopyByte(memoBuffer, 144, i)
            ELSE IF WriteCovers(140, 4, i) THEN WriteByteLE(p.blockToLive, 140, 4, i)
            ELSE IF WriteCovers(132, 8, i) THEN WriteByteLE(p.fee, 132, 8, i)
            ELSE IF WriteCovers(124, 8, i) THEN WriteByteLE(p.amount, 124, 8, i)
            ELSE IF CopyCovers(destAddr, TxBufferSize, 84, Len(destAddr), i)
            THEN CopyByte(destAddr, 84, i)
            ELSE IF CopyCovers(changePk, TxBufferSize, 44, Len(changePk), i)
            THEN CopyByte(changePk, 44, i)
            ELSE IF CopyCovers(sourceAddr, TxBufferSize, 4, Len(sourceAddr), i)
            THEN CopyByte(sourceAddr, 4, i)
            ELSE IF WriteCovers(0, 4, i) THEN WriteByteLE(0, 0, 4, i)
            ELSE 0]

\* mutant of MemoOrEmpty: the memo is given as the hex of formatMemo's bytes
MemoOrEmptyEncoded(m) ==
    Hex([i \in 1..16 |-> FormatMemo(IF m = None THEN <<>> ELSE m[1])[i - 1]])
\* mutant of MemoOrEmpty: the memo is left out of the metadata
MemoOrEmptyDrops(m) == <<>>
\* params.memo || ""
MemoOrEmpty(m) == IF m = None \/ m = Some(<<>>) THEN <<>> ELSE m[1]

\* mutant of Operations: the debit is not negated and the fee comes second
OperationsUnsigned(p) ==
    << [operation_identifier |-> [index |-> 0], type |-> "SOURCE_TRANSFER",
        status |-> "SUCCESS", account |-> [address |-> p.sourceTag],
        amount |-> [value |-> Dec(p.amount), currency |-> MCM_CURRENCY]],
       [operation_identifier |-> [index |-> 1], type |-> "FEE",
        status |-> "SUCCESS", account |-> [address |-> p.sourceTag],
        amount |-> [value |-> Dec(p.fee), currency |-> MCM_CURRENCY]],
       [operation_identifier |-> [index |-> 2], type |-> "DESTINATION_TRANSFER",
        status |-> "SUCCESS", account |-> [address |-> p.destinationTag],
        amount |-> [value |-> Dec(p.amount), currency |-> MCM_CURRENCY],
        metadata |-> [memo |-> MemoOrEmpty(p.memo)]] >>
Operations(p) ==
    << [operation_identifier |-> [index |-> 0], type |-> "SOURCE_TRANSFER",
        status |-> "SUCCESS", account |-> [address |-> p.sourceTag],
        amount |-> [value |-> Dec(-p.amount), currency |-> MCM_CURRENCY]],
       [operation_identifier |-> [index |-> 1], type |-> "DESTINATION_TRANSFER",
        status |-> "SUCCESS", account |-> [address |-> p.destinationTag],
        amount |-> [value |-> Dec(p.amount), currency |-> MCM_CURRENCY],
        metadata |-> [memo |-> MemoOrEmpty(p.memo)]],
       [operation_identifier |-> [index |-> 2], type |-> "FEE",
        status |-> "SUCCESS", account |-> [address |-> p.sourceTag],
        amount |-> [value |-> Dec(p.fee), currency |-> MCM_CURRENCY]] >>

\* params.sourceBalance ? params.sourceBalance.toString() : '179999501'
\* (a bigint 0n is falsy)
SourceBalanceField(sb) ==
    IF sb = None \/ sb = Some(0) THEN Dec(DefaultSourceBalance) ELSE Dec(sb[1])

PreprocessMetadata(p) ==
    [block_to_live |-> Dec(p.blockToLive), change_pk |-> p.changePk,
     change_addr |-> p.changePk, source_balance |-> SourceBalanceField(p.sourceBalance)]

PublicKeys(p) == << [hex_bytes |-> p.publicKey, curve_type |-> "wotsp"] >>

\* the arguments buildTransaction gives metadata and payloads
\* mutant of MetadataOptions: fixed options instead of the returned ones
MetadataOptionsStale(pre) == "opt1"
MetadataOptions(pre) == Get(pre, "options")
PayloadsOperations(ops) == ops
PayloadsMetadata(meta) == Get(meta, "metadata")

\* catch (error) { throw error instanceof Error ? error : new Error(...) }
Rethrow(e) == IF e.isError THEN e ELSE Err(<<"Unknown error occurred">>)

Pending == [st |-> "pending"]
Returned(v) == [st |-> "value", val |-> v]
Thrown(e) == [st |-> "error", err |-> e]

\* the calls of buildTransaction that run interleaved on one builder; a call
\* that has not been made yet has no locals
Runs == 1..MaxRuns
IdleRun == [pc |-> "idle", params |-> Unset, operations |-> <<>>, preResp |-> Unset,
            metaResp |-> Unset, outcome |-> Pending]

Init ==
    /\ pc = "idle"
    /\ entry = "none"
    /\ params = Unset
    /\ operations = <<>>
    /\ preResp = Unset
    /\ metaResp = Unset
    /\ buildRes = Unset
    /\ sigs = <<>>
    /\ combined = Unset
    /\ signedArg = Undefined
    /\ outcome = Pending
    /\ trace = <<>>
    /\ now \in 0..MaxStart
    /\ startTime = 0
    /\ wHash = Undefined
    /\ wTimeout = 0
    /\ wInterval = 0
    /\ cTimeout = 0
    /\ nLookups = 0
    /\ nSleeps = 0
    /\ lookHash = Undefined
    /\ lastRes = "none"
    /\ found = Unset
    /\ lastEv = "none"
    /\ sleepReq = 0
    /\ lastAwait = 0
    /\ retried = {}
    /\ lookReq = Unset
    /\ client \in {[baseUrl |-> b, networkIdentifier |-> NETWORK_IDENTIFIER] :
                       b \in BaseUrls}
    /\ runs = [r \in Runs |-> IdleRun]
    /\ sent = [r \in Runs |-> <<>>]
    /\ memoCall = "none"
    /\ memoArg = <<>>
    /\ memoRet = Unset
    /\ bytesCall = "none"
    /\ bytesArg = Unset
    /\ bytesRet = Unset

\* the call settles: the promise the caller holds resolves or rejects
Finish(o) == pc' = "done" /\ outcome' = o

\* buildTransaction up to its first await
BuildBegin(p) ==
    /\ params' = p
    /\ IF CreateTransactionBytesThrows(p)
       THEN /\ Finish(Thrown(Rethrow(CreateTransactionBytesError(p))))
            /\ UNCHANGED <<operations, trace>>
       ELSE /\ operations' = Operations(p)
            /\ trace' = Append(trace, Req("/construction/preprocess",
                            PreprocessBody(Operations(p), PreprocessMetadata(p))))
            /\ pc' = "preprocess"
            /\ UNCHANGED outcome

CallBuildTransaction(p) ==
    /\ pc = "idle"
    /\ entry' = "buildTransaction"
    /\ BuildBegin(p)
    /\ UNCHANGED <<preResp, metaResp, buildRes, sigs, combined, signedArg, cTimeout>>
    /\ UNCHANGED monVars
    /\ UNCHANGED outerVars

\* mutant of PreprocessSettles: metadata is requested whatever preprocess
\* settled to
PreprocessSettlesNoCheck(o) ==
    /\ pc = "preprocess"
    /\ LET r == MakeRequest(o)
           pre == IF r.ok THEN r.val ELSE Unset
       IN  /\ preResp' = pre
           /\ trace' = trace \o << Ret("/construction/preprocess", o, r),
                  Req("/construction/metadata",
                      MetadataBody(MetadataOptions(pre), PublicKeys(params))) >>
           /\ pc' = "metadata"
           /\ UNCHANGED outcome
    /\ UNCHANGED <<entry, params, operations, metaResp, buildRes, sigs, combined,
                   signedArg, cTimeout>>
    /\ UNCHANGED monVars
    /\ UNCHANGED outerVars

\* await this.construction.preprocess(...) settles
PreprocessSettles(o) ==
    /\ pc = "preprocess"
    /\ LET r == MakeRequest(o) IN
       IF r.ok
       THEN /\ preResp' = r.val
            /\ trace' = trace \o << Ret("/construction/preprocess", o, r),
                   Req("/construction/metadata",
                       MetadataBody(MetadataOptions(r.val), PublicKeys(params))) >>
            /\ pc' = "metadata"
            /\ UNCHANGED outcome
       ELSE /\ trace' = Append(trace, Ret("/construction/preprocess", o, r))
            /\ Finish(Thrown(Rethrow(r.err)))
            /\ UNCHANGED preResp
    /\ UNCHANGED <<entry, params, operations, metaResp, buildRes, sigs, combined,
                   signedArg, cTimeout>>
    /\ UNCHANGED monVars
    /\ UNCHANGED outerVars

\* await this.construction.metadata(...) settles
MetadataSettles(o) ==
    /\ pc = "metadata"
    /\ LET r == MakeRequest(o) IN
       IF r.ok
       THEN /\ metaResp' = r.val
            /\ trace' = trace \o << Ret("/construction/metadata", o, r),
                   Req("/construction/payloads",
                       PayloadsBody(PayloadsOperations(operations),
                                    PayloadsMetadata(r.val), PublicKeys(params))) >>
            /\ pc' = "payloads"
            /\ UNCHANGED outcome
       ELSE /\ trace' = Append(trace, Ret("/construction/metadata", o, r))
            /\ Finish(Thrown(Rethrow(r.err)))
            /\ UNCHANGED metaResp
    /\ UNCHANGED <<entry, params, operations, preResp, buildRes, sigs, combined,
                   signedArg, cTimeout>>
    /\ UNCHANGED monVars
    /\ UNCHANGED outerVars


(***************************************************************************)
(* buildAndSignTransaction: signing is the wallet's, outside this code;    *)
(* a signature is an opaque value that depends on what was signed.         *)
(***************************************************************************)
\* [...sourceWallet.sign(hash), ...pub, ...rnd]: bytes that depend on the
\* transaction that was signed
WalletSign(utx) == IF utx = "utx1" THEN <<1, 35, 171>> ELSE <<2, 222, 10>>

CreateSignature(publicKey, unsignedTx, signatureBytes) ==
    [signing_payload |-> [hex_bytes |-> unsignedTx, signature_type |-> "wotsp"],
     public_key |-> [hex_bytes |-> Hex(publicKey), curve_type |-> "wotsp"],
     signature_type |-> "wotsp",
     hex_bytes |-> Hex(signatureBytes)]

\* what Buffer.from(unsignedTransaction, 'hex') throws when payloads
\* returned no unsigned_transaction
FromUndefinedError ==
    Err(<<"The first argument must be of type string or an instance of Buffer, ",
          "ArrayBuffer, or Array or an Array-like Object. Received undefined">>)

\* the params buildAndSignTransaction makes of its arguments
SignParams(amount, fee, memo) ==
    [sourceTag |-> "0xsrctag", sourceAddress |-> With0x(Hex(SourceWalletAddress)),
     destinationTag |-> DestinationTag, amount |-> amount, fee |-> fee,
     publicKey |-> "pubkey", changePk |-> With0x(Hex(ChangeWalletAddrHash)),
     memo |-> memo,
     blockToLive |-> 0, sourceBalance |-> Some(amount + fee)]

CallBuildAndSignTransaction(amount, fee, memo) ==
    /\ pc = "idle"
    /\ entry' = "buildAndSignTransaction"
    /\ BuildBegin(SignParams(amount, fee, memo))
    /\ UNCHANGED <<preResp, metaResp, buildRes, sigs, combined, signedArg, cTimeout>>
    /\ UNCHANGED monVars
    /\ UNCHANGED outerVars

\* await this.construction.payloads(...) settles; buildTransaction returns
\* its result, and buildAndSignTransaction goes on to sign and combine
PayloadsSettles(o) ==
    /\ pc = "payloads"
    /\ LET r == MakeRequest(o) IN
       IF ~r.ok
       THEN /\ trace' = Append(trace, Ret("/construction/payloads", o, r))
            /\ Finish(Thrown(Rethrow(r.err)))
            /\ UNCHANGED <<buildRes, sigs>>
       ELSE IF entry = "buildTransaction"
       THEN /\ trace' = Append(trace, Ret("/construction/payloads", o, r))
            /\ Finish(Returned(r.val))
            /\ UNCHANGED <<buildRes, sigs>>
       ELSE IF Get(r.val, "unsigned_transaction") = Undefined
       THEN \* Buffer.from(undefined, 'hex') throws a TypeError
            /\ trace' = Append(trace, Ret("/construction/payloads", o, r))
            /\ Finish(Thrown(FromUndefinedError))
            /\ buildRes' = r.val
            /\ UNCHANGED sigs
       ELSE LET utx == Get(r.val, "unsigned_transaction")
                sig == CreateSignature(SourceWalletAddress, utx, WalletSign(utx))
            IN  /\ buildRes' = r.val
                /\ sigs' = <<sig>>
                /\ trace' = trace \o << Ret("/construction/payloads", o, r),
                       Req("/construction/combine", CombineBody(utx, <<sig>>)) >>
                /\ pc' = "combine"
                /\ UNCHANGED outcome
    /\ UNCHANGED <<entry, params, operations, preResp, metaResp, combined,
                   signedArg, cTimeout>>
    /\ UNCHANGED monVars
    /\ UNCHANGED outerVars

\* mutant of CombineSettles: submit is requested twice at once
CombineSettlesSubmitsTwice(o) ==
    /\ pc = "combine"
    /\ LET r == MakeRequest(o) IN
       IF r.ok
       THEN /\ combined' = r.val
            /\ trace' = trace \o << Ret("/construction/combine", o, r),
                   Req("/construction/submit",
                       SubmitBody(Get(r.val, "signed_transaction"))),
                   Req("/construction/submit",
                       SubmitBody(Get(r.val, "signed_transaction"))) >>
            /\ pc' = "submit"
            /\ UNCHANGED outcome
       ELSE /\ trace' = Append(trace, Ret("/construction/combine", o, r))
            /\ Finish(Thrown(r.err))
            /\ UNCHANGED combined
    /\ UNCHANGED <<entry, params, operations, preResp, metaResp, buildRes, sigs,
                   signedArg, cTimeout>>
    /\ UNCHANGED monVars
    /\ UNCHANGED outerVars

\* await this.construction.combine(...) settles
CombineSettles(o) ==
    /\ pc = "combine"
    /\ LET r == MakeRequest(o) IN
       IF r.ok
       THEN /\ combined' = r.val
            /\ trace' = trace \o << Ret("/construction/combine", o, r),
                   Req("/construction/submit",
                       SubmitBody(Get(r.val, "signed_transaction"))) >>
            /\ pc' = "submit"
            /\ UNCHANGED outcome
       ELSE /\ trace' = Append(trace, Ret("/construction/combine", o, r))
            /\ Finish(Thrown(r.err))
            /\ UNCHANGED combined
    /\ UNCHANGED <<entry, params, operations, preResp, metaResp, buildRes, sigs,
                   signedArg, cTimeout>>
    /\ UNCHANGED monVars
    /\ UNCHANGED outerVars

\* mutant of SignSubmitSettles: the run goes on to monitor the mempool for
\* the submitted hash before it completes
SignSubmitSettlesThenMonitors(o) ==
    /\ pc = "submit"
    /\ entry = "buildAndSignTransaction"
    /\ LET r == MakeRequest(o) IN
       /\ trace' = Append(trace, Ret("/construction/submit", o, r))
       /\ IF ~r.ok
          THEN /\ Finish(Thrown(r.err))
               /\ UNCHANGED <<now, startTime, wHash, wTimeout, wInterval, nLookups,
                              lookHash, lookReq, lastEv>>
          ELSE /\ wHash' = IF "transaction_identifier" \in DOMAIN r.val
                             THEN Get(r.val.transaction_identifier, "hash")
                             ELSE Undefined
               /\ wTimeout' = 1
               /\ wInterval' = 1
               /\ startTime' = now
               /\ nLookups' = 1
               /\ lookHash' = wHash'
               /\ lookReq' = Req("/mempool/transaction", MempoolTxBody(wHash'))
               /\ lastEv' = "lookup"
               /\ pc' = "lookup"
               /\ UNCHANGED <<now, outcome>>
    /\ UNCHANGED <<entry, cTimeout, nSleeps, lastRes, found, sleepReq, lastAwait,
                   retried>>
    /\ UNCHANGED pipeVars
    /\ UNCHANGED outerVars

\* buildAndSignTransaction: await this.submitSignedTransaction(...) settles
SignSubmitSettles(o) ==
    /\ pc = "submit"
    /\ entry = "buildAndSignTransaction"
    /\ LET r == MakeRequest(o) IN
       /\ trace' = Append(trace, Ret("/construction/submit", o, r))
       /\ IF r.ok
          THEN Finish(Returned([buildResult |-> buildRes, submitResult |-> r.val,
                   signedTransaction |-> Get(combined, "signed_transaction")]))
          ELSE Finish(Thrown(r.err))
    /\ UNCHANGED <<entry, cTimeout>>
    /\ UNCHANGED pipeVars
    /\ UNCHANGED monVars
    /\ UNCHANGED outerVars


(***************************************************************************)
(* MochimoApiClient.waitForTransaction.  The clock moves only while the    *)
(* call is suspended: a lookup takes 0..MaxLatency ms, and a timer set for *)
(* d ms fires after d..d+MaxJitter ms.                                     *)
(***************************************************************************)
Timeouts  == -1..MaxTimeout
Intervals == 1..MaxInterval
Latencies == 0..MaxLatency
Jitters   == 0..MaxJitter
\* no run of the monitor reads the clock beyond MaxClock
MaxClock == MaxStart + MaxTimeout + MaxPolls * DefaultInterval + MaxLatency
            + DefaultInterval + MaxInterval + MaxJitter

\* mutants of CatchGivesUp: the catch block never throws; it always throws
CatchNeverGivesUp(n, s, t) == FALSE
CatchAlwaysGivesUp(n, s, t) == TRUE
\* mutant of SleepDelay: the timer is set without the interval
SleepDelayZero(i) == 0
\* mutant of WaitResult: only the transaction field is handed on
WaitResultUnwrap(resp) == [transaction |-> resp.transaction]
\* mutant of NotFoundAfterError: the lookup's own error is thrown
RethrowNotFound(h, t) == Err(<<"Rosetta API Error: ", "Transaction not found">>)

\* the history counters stop counting at MaxCount, which no run reaches
MaxCount == MaxTimeout + 1
Count(n) == IF n < MaxCount THEN n + 1 ELSE n

\* mutant of LoopCond: the loop is entered when the elapsed time equals
\* the timeout
LoopCondInclusive(n, s, t) == n - s <= t
\* while (Date.now() - startTime < timeout)
LoopCond(n, s, t) == n - s < t
\* mutant of TryReturns: a response that arrives after the timeout is
\* handled as a failed lookup
TryReturnsInTime(r, n, s, t) == r.ok /\ n - s < t
\* try { const response = await ...; return response; }: the try block
\* returns when the lookup resolved, whatever the clock n says
TryReturns(r, n, s, t) == r.ok
\* catch: if (Date.now() - startTime >= timeout) throw
CatchGivesUp(n, s, t) == n - s >= t
\* mutant of SleepDelay: the timer is set to half the interval
SleepDelayHalf(i) == i \div 2
\* setTimeout(resolve, interval)
SleepDelay(i) == i
\* this.getMempoolTransaction(transactionHash)
LookupHash(h) == h
\* return response
WaitResult(resp) == resp

TimeoutError(h) == Err(<<"Timeout waiting for transaction ", h>>)
NotFoundAfterError(h, t) ==
    Err(<<"Transaction ", h, " not found in mempool after ", Dec(t), "ms">>)
\* the errors a lookup can reject with
LookupErrors == {r.err : r \in {MakeRequest(o) : o \in
                    {x \in Outcomes("/mempool/transaction") : ~MakeRequest(x).ok}}}

\* the loop head at clock n: look up once more, or leave the loop and throw
LoopHead(n, s, h, t) ==
    IF LoopCond(n, s, t)
    THEN /\ nLookups' = Count(nLookups)
         /\ lookHash' = LookupHash(h)
         /\ lookReq' = Req("/mempool/transaction", MempoolTxBody(LookupHash(h)))
         /\ lastEv' = "lookup"
         /\ pc' = "lookup"
         /\ UNCHANGED outcome
    ELSE /\ Finish(Thrown(TimeoutError(h)))
         /\ UNCHANGED <<nLookups, lookHash, lookReq, lastEv>>

\* waitForTransaction(h, t, i) up to its first await
WaitBegin(h, t, i) ==
    /\ wHash' = h
    /\ wTimeout' = t
    /\ wInterval' = i
    /\ startTime' = now
    /\ LoopHead(now, now, h, t)
    /\ UNCHANGED <<now, nSleeps, lastRes, found, sleepReq, lastAwait, retried>>

CallWaitForTransaction(h, t, i) ==
    /\ pc = "idle"
    /\ entry' = "waitForTransaction"
    /\ WaitBegin(h, t, i)
    /\ UNCHANGED <<trace, cTimeout>>
    /\ UNCHANGED pipeVars
    /\ UNCHANGED outerVars

\* mutant of LookupSettles: only an error envelope is retried; any other
\* failure of the lookup is thrown to the caller
LookupSettlesRetryEnvelopeOnly(lat, o) ==
    /\ pc = "lookup"
    /\ now + lat <= MaxClock
    /\ now' = now + lat
    /\ lastAwait' = lat
    /\ lastRes' = Kind(o)
    /\ found' = IF Kind(o) = "found" THEN o.body ELSE found
    /\ LET r == MakeRequest(o) IN
       IF r.ok
       THEN /\ Finish(Returned(WaitResult(r.val)))
            /\ UNCHANGED <<nSleeps, sleepReq, lastEv>>
       ELSE IF Kind(o) # "envelope"
       THEN /\ Finish(Thrown(r.err))
            /\ UNCHANGED <<nSleeps, sleepReq, lastEv>>
       ELSE IF CatchGivesUp(now + lat, startTime, wTimeout)
       THEN /\ Finish(Thrown(NotFoundAfterError(wHash, wTimeout)))
            /\ UNCHANGED <<nSleeps, sleepReq, lastEv>>
       ELSE /\ sleepReq' = SleepDelay(wInterval)
            /\ nSleeps' = Count(nSleeps)
            /\ lastEv' = "sleep"
            /\ pc' = "sleep"
            /\ UNCHANGED outcome
    /\ UNCHANGED <<entry, trace, cTimeout, startTime, wHash, wTimeout, wInterval,
                   nLookups, lookHash, lookReq, retried>>
    /\ UNCHANGED pipeVars
    /\ UNCHANGED outerVars

\* await this.getMempoolTransaction(transactionHash) settles after lat ms
LookupSettles(lat, o) ==
    /\ pc = "lookup"
    /\ now + lat <= MaxClock
    /\ now' = now + lat
    /\ lastAwait' = lat
    /\ lastRes' = Kind(o)
    /\ found' = IF Kind(o) = "found" THEN o.body ELSE found
    /\ LET r == MakeRequest(o) IN
       IF TryReturns(r, now + lat, startTime, wTimeout)
       THEN /\ Finish(Returned(WaitResult(r.val)))
            /\ UNCHANGED <<nSleeps, sleepReq, lastEv>>
       ELSE IF CatchGivesUp(now + lat, startTime, wTimeout)
       THEN /\ Finish(Thrown(NotFoundAfterError(wHash, wTimeout)))
            /\ UNCHANGED <<nSleeps, sleepReq, lastEv>>
       ELSE /\ sleepReq' = SleepDelay(wInterval)
            /\ nSleeps' = Count(nSleeps)
            /\ lastEv' = "sleep"
            /\ pc' = "sleep"
            /\ UNCHANGED outcome
    /\ UNCHANGED <<entry, trace, cTimeout, startTime, wHash, wTimeout, wInterval,
                   nLookups, lookHash, lookReq, retried>>
    /\ UNCHANGED pipeVars
    /\ UNCHANGED outerVars

\* the timer fires j ms late; the loop condition is evaluated again
SleepEnds(j) ==
    /\ pc = "sleep"
    /\ now + sleepReq + j <= MaxClock
    /\ now' = now + sleepReq + j
    /\ lastAwait' = sleepReq + j
    /\ LoopHead(now + sleepReq + j, startTime, wHash, wTimeout)
    /\ retried' = IF LoopCond(now + sleepReq + j, startTime, wTimeout)
                  THEN retried \cup {lastRes} ELSE retried
    /\ UNCHANGED <<entry, trace, cTimeout, startTime, wHash, wTimeout, wInterval,
                   nSleeps, lastRes, found, sleepReq>>
    /\ UNCHANGED pipeVars
    /\ UNCHANGED outerVars

(***************************************************************************)
(* TransactionBuilder.submitAndMonitor                                     *)
(***************************************************************************)
SignedTransactions == {"stx1", "stx2"}
MonitorTimeouts == Timeouts \cup {k * DefaultInterval : k \in 1..MaxPolls}

\* mutant of NoHash: only a missing hash is refused, an empty one is not
NoHashOnlyUndefined(res) ==
    ~("transaction_identifier" \in DOMAIN res
      /\ "hash" \in DOMAIN res.transaction_identifier)

\* submitResult.transaction_identifier?.hash
SubmitHash(res) ==
    IF "transaction_identifier" \in DOMAIN res
    THEN Get(res.transaction_identifier, "hash") ELSE Undefined
\* if (!submitResult.transaction_identifier?.hash) throw
NoHash(res) == Falsy(SubmitHash(res))
NoHashError == Err(<<"No transaction hash in submit response">>)

CallSubmitAndMonitor(stx, t) ==
    /\ pc = "idle"
    /\ entry' = "submitAndMonitor"
    /\ signedArg' = stx
    /\ cTimeout' = t
    /\ trace' = Append(trace, Req("/construction/submit", SubmitBody(stx)))
    /\ pc' = "submit"
    /\ UNCHANGED <<params, operations, preResp, metaResp, buildRes, sigs, combined,
                   outcome>>
    /\ UNCHANGED monVars
    /\ UNCHANGED outerVars

\* submitAndMonitor: await this.submitSignedTransaction(...) settles
MonitorSubmitSettles(o) ==
    /\ pc = "submit"
    /\ entry = "submitAndMonitor"
    /\ LET r == MakeRequest(o) IN
       /\ trace' = Append(trace, Ret("/construction/submit", o, r))
       /\ IF ~r.ok
          THEN Finish(Thrown(r.err)) /\ UNCHANGED monVars
          ELSE IF NoHash(r.val)
          THEN Finish(Thrown(NoHashError)) /\ UNCHANGED monVars
          ELSE WaitBegin(SubmitHash(r.val), cTimeout, DefaultInterval)
    /\ UNCHANGED <<entry, cTimeout>>
    /\ UNCHANGED pipeVars
    /\ UNCHANGED outerVars


(***************************************************************************)
(* The methods of MochimoApiClient called on their own.  Each makes one    *)
(* request through makeRequest and settles as the request does.            *)
(***************************************************************************)
ClientMethods ==
    {"derive", "preprocess", "metadata", "payloads", "combine", "submit", "parse",
     "getAccountBalance", "getBlock", "getBlockTransaction", "getNetworkStatus",
     "getNetworkOptions", "searchTransactionsByAddress", "searchTransactionsByBlock",
     "searchTransactionsByTxId", "getMempoolTransactions", "getMempoolTransaction",
     "getEventsBlocks", "getStatsRichlist", "resolveTag"}

\* the options argument of the search, events and statistics methods
ListOptions ==
    {None, Some([limit |-> 1, status |-> "SUCCESS"]), Some([max_block |-> 5]),
     Some([ascending |-> TRUE, offset |-> 0])}

\* if (options) { if (options.f !== undefined) body.f = options.f; ... }
WithOptions(body, opt, fields) ==
    IF opt = None THEN body
    ELSE body @@ [f \in (DOMAIN opt[1]) \cap fields |-> opt[1][f]]

\* the arguments the model calls the construction methods with
SampleParams == SignParams(1, 0, None)
BlockId == [index |-> 1, hash |-> "b1"]

ClientEndpoint(m) ==
    CASE m = "derive" -> "/construction/derive"
      [] m = "preprocess" -> "/construction/preprocess"
      [] m = "metadata" -> "/construction/metadata"
      [] m = "payloads" -> "/construction/payloads"
      [] m = "combine" -> "/construction/combine"
      [] m = "submit" -> "/construction/submit"
      [] m = "parse" -> "/construction/parse"
      [] m = "getAccountBalance" -> "/account/balance"
      [] m = "getBlock" -> "/block"
      [] m = "getBlockTransaction" -> "/block/transaction"
      [] m = "getNetworkStatus" -> "/network/status"
      [] m = "getNetworkOptions" -> "/network/options"
      [] m \in {"searchTransactionsByAddress", "searchTransactionsByBlock",
                "searchTransactionsByTxId"} -> "/search/transactions"
      [] m = "getMempoolTransactions" -> "/mempool"
      [] m = "getMempoolTransaction" -> "/mempool/transaction"
      [] m = "getEventsBlocks" -> "/events/blocks"
      [] m = "getStatsRichlist" -> "/stats/richlist"
      [] m = "resolveTag" -> "/call"

ClientBody(m, opt) ==
    LET ni == [network_identifier |-> client.networkIdentifier] IN
    CASE m = "derive" ->
             ni @@ [public_key |-> [hex_bytes |-> "pubkey", curve_type |-> "wotsp"],
                    metadata |-> [tag |-> "0xsrctag"]]
      [] m = "preprocess" ->
             PreprocessBody(Operations(SampleParams), PreprocessMetadata(SampleParams))
      [] m = "metadata" -> MetadataBody("opt1", PublicKeys(SampleParams))
      [] m = "payloads" ->
             PayloadsBody(Operations(SampleParams), "md1", PublicKeys(SampleParams))
      [] m = "combine" -> CombineBody("utx1", <<>>)
      [] m = "submit" -> SubmitBody("stx1")
      [] m = "parse" -> ni @@ [transaction |-> "stx1", signed |-> TRUE]
      [] m = "getAccountBalance" ->
             ni @@ [account_identifier |-> [address |-> "0xsrctag"]]
      [] m = "getBlock" -> ni @@ [block_identifier |-> BlockId]
      [] m = "getBlockTransaction" ->
             ni @@ [block_identifier |-> BlockId,
                    transaction_identifier |-> [hash |-> "h1"]]
      [] m \in {"getNetworkStatus", "getNetworkOptions", "getMempoolTransactions"} -> ni
      [] m = "searchTransactionsByAddress" ->
             WithOptions(ni @@ [account_identifier |-> [address |-> "0xsrctag"]],
                         opt, {"limit", "offset", "max_block", "status"})
      [] m = "searchTransactionsByBlock" ->
             WithOptions(ni @@ [block_identifier |-> BlockId],
                         opt, {"limit", "offset", "status"})
      [] m = "searchTransactionsByTxId" ->
             WithOptions(ni @@ [transaction_identifier |-> [hash |-> "h1"]],
                         opt, {"max_block", "status"})
      [] m = "getMempoolTransaction" -> MempoolTxBody("h1")
      [] m = "getEventsBlocks" -> WithOptions(ni, opt, {"limit", "offset"})
      [] m = "getStatsRichlist" ->
             WithOptions(ni, opt, {"ascending", "offset", "limit"})
      [] m = "resolveTag" ->
             ni @@ [parameters |-> [tag |-> "0xsrctag"], method |-> "tag_resolve"]

\* the methods that take an options argument
TakesOptions(m) ==
    m \in {"searchTransactionsByAddress", "searchTransactionsByBlock",
           "searchTransactionsByTxId", "getEventsBlocks", "getStatsRichlist"}

\* every way any request can settle
AllOutcomes == UNION {StatusOutcomes(ClientEndpoint(m)) : m \in ClientMethods}

\* a client method is called: it hands its request to makeRequest
CallClientMethod(m, opt) ==
    /\ pc = "idle"
    /\ TakesOptions(m) \/ opt = None
    /\ entry' = m
    /\ trace' = Append(trace, Req(ClientEndpoint(m), ClientBody(m, opt)))
    /\ pc' = "request"
    /\ UNCHANGED <<outcome, cTimeout>>
    /\ UNCHANGED pipeVars
    /\ UNCHANGED monVars
    /\ UNCHANGED outerVars

\* the request of the client method settles, and the method with it
ClientSettles(o) ==
    /\ pc = "request"
    /\ o \in StatusOutcomes(trace[1].ep)
    /\ LET r == MakeRequest(o) IN
       /\ trace' = Append(trace, Ret(trace[1].ep, o, r))
       /\ Finish(IF r.ok THEN Returned(r.val) ELSE Thrown(r.err))
    /\ UNCHANGED <<entry, cTimeout>>
    /\ UNCHANGED pipeVars
    /\ UNCHANGED monVars
    /\ UNCHANGED outerVars


(***************************************************************************)
(* Several calls of buildTransaction on one TransactionBuilder.  Each call *)
(* is suspended at its own await; the responses arrive in any order.  The  *)
(* parameter and the consts of buildTransaction belong to the call.        *)
(***************************************************************************)
\* the params the interleaved calls are given
ConcParams ==
    {p \in BuildParams : /\ p.amount \in {0, 1} /\ p.fee = 0 /\ p.memo = None
                         /\ "sourceAddress" \in DOMAIN p
                         /\ p.sourceAddress # InvalidString
                         /\ p.sourceBalance = None /\ p.blockToLive = 0}
\* how the requests of the interleaved calls settle
ConcOutcomes(ep) ==
    {o \in Outcomes(ep) : o.kind = "unparsable"
                          \/ (o.kind = "body" /\ "code" \notin DOMAIN o.body)}

\* mutant of SetLocal: the value is kept in one place shared by all calls
SetShared(rs, r, f, v) == [q \in DOMAIN rs |-> [rs[q] EXCEPT ![f] = v]]
\* const f = v inside buildTransaction: the binding belongs to call r
SetLocal(rs, r, f, v) == [rs EXCEPT ![r][f] = v]

\* promise of call r: where it is suspended, what it settled to
Suspend(rs, r, at) == [rs EXCEPT ![r].pc = at]
Settle(rs, r, o) == [rs EXCEPT ![r].pc = "done", ![r].outcome = o]

seqVars == <<pc, entry, outcome, trace, cTimeout, pipeVars, monVars>>

\* call r of buildTransaction(p) runs up to its first await
RunBuildTransaction(r, p) ==
    /\ runs[r].pc = "idle"
    /\ IF CreateTransactionBytesThrows(p)
       THEN /\ runs' = Settle(SetLocal(runs, r, "params", p), r,
                              Thrown(Rethrow(CreateTransactionBytesError(p))))
            /\ UNCHANGED sent
       ELSE /\ runs' = Suspend(SetLocal(SetLocal(runs, r, "params", p),
                                        r, "operations", Operations(p)),
                               r, "preprocess")
            /\ sent' = [sent EXCEPT ![r] = Append(@, Req("/construction/preprocess",
                            PreprocessBody(Operations(p), PreprocessMetadata(p))))]
    /\ UNCHANGED <<client, seqVars, memoVars, bytesVars>>

\* call r: await this.construction.preprocess(...) settles
RunPreprocessSettles(r, o) ==
    /\ runs[r].pc = "preprocess"
    /\ LET res == MakeRequest(o) IN
       IF res.ok
       THEN /\ runs' = Suspend(SetLocal(runs, r, "preResp", res.val), r, "metadata")
            /\ sent' = [sent EXCEPT ![r] = @ \o
                   << Ret("/construction/preprocess", o, res),
                      Req("/construction/metadata",
                          MetadataBody(MetadataOptions(res.val),
                                       PublicKeys(runs[r].params))) >>]
       ELSE /\ runs' = Settle(runs, r, Thrown(Rethrow(res.err)))
            /\ sent' = [sent EXCEPT ![r] =
                            Append(@, Ret("/construction/preprocess", o, res))]
    /\ UNCHANGED <<client, seqVars, memoVars, bytesVars>>

\* call r: await this.construction.metadata(...) settles
RunMetadataSettles(r, o) ==
    /\ runs[r].pc = "metadata"
    /\ LET res == MakeRequest(o) IN
       IF res.ok
       THEN /\ runs' = Suspend(SetLocal(runs, r, "metaResp", res.val), r, "payloads")
            /\ sent' = [sent EXCEPT ![r] = @ \o
                   << Ret("/construction/metadata", o, res),
                      Req("/construction/payloads",
                          PayloadsBody(PayloadsOperations(runs[r].operations),
                                       PayloadsMetadata(res.val),
                                       PublicKeys(runs[r].params))) >>]
       ELSE /\ runs' = Settle(runs, r, Thrown(Rethrow(res.err)))
            /\ sent' = [sent EXCEPT ![r] =
                            Append(@, Ret("/construction/metadata", o, res))]
    /\ UNCHANGED <<client, seqVars, memoVars, bytesVars>>

\* call r: await this.construction.payloads(...) settles
RunPayloadsSettles(r, o) ==
    /\ runs[r].pc = "payloads"
    /\ LET res == MakeRequest(o) IN
       /\ sent' = [sent EXCEPT ![r] = Append(@, Ret("/construction/payloads", o, res))]
       /\ runs' = Settle(runs, r, IF res.ok THEN Returned(res.val)
                                  ELSE Thrown(Rethrow(res.err)))
    /\ UNCHANGED <<client, seqVars, memoVars, bytesVars>>

NextConc ==
    \/ \E r \in Runs, p \in ConcParams : RunBuildTransaction(r, p)
    \/ \E r \in Runs, o \in ConcOutcomes("/construction/preprocess") :
           RunPreprocessSettles(r, o)
    \/ \E r \in Runs, o \in ConcOutcomes("/construction/metadata") :
           RunMetadataSettles(r, o)
    \/ \E r \in Runs, o \in ConcOutcomes("/construction/payloads") :
           RunPayloadsSettles(r, o)

SpecConc == Init /\ [][NextConc]_vars

(***************************************************************************)
(* The memo functions called on their own.                                 *)
(***************************************************************************)
CallIsValidMemo(memo) ==
    /\ memoCall = "none"
    /\ memoCall' = "isValidMemo"
    /\ memoArg' = memo
    /\ memoRet' = IsValidMemo(memo)
    /\ UNCHANGED <<client, runs, sent, seqVars, bytesVars>>

CallFormatMemo(memo) ==
    /\ memoCall = "none"
    /\ memoCall' = "formatMemo"
    /\ memoArg' = memo
    /\ memoRet' = FormatMemo(memo)
    /\ UNCHANGED <<client, runs, sent, seqVars, bytesVars>>

NextMemo ==
    \/ \E memo \in MemoInputs : CallIsValidMemo(memo)
    \/ \E memo \in MemoInputs : CallFormatMemo(memo)

SpecMemo == Init /\ [][NextMemo]_vars

(***************************************************************************)
(* createTransactionBytes and createSignature called on their own.         *)
(***************************************************************************)
\* the hex strings given for the three hex fields: the bytes of a wallet,
\* of the usual lengths and longer, with and without the prefix; none; an
\* odd number of digits; and a string that is not hex
HexOf(n, seed) == Hex(PatternBytes(n, seed))
ByteSourceAddresses ==
    {With0x(HexOf(40, 1)), HexOf(MaxHexBytes, 1), InvalidString}
ByteChangePks ==
    {With0x(HexOf(20, 2)), <<>>, HexOf(MaxHexBytes, 2)}
ByteDestinationTags ==
    {With0x(HexOf(20, 3)), With0x(HexOf(MaxHexBytes, 3)), HexOf(20, 3) \o <<"7">>}
\* 16909060 is 0x01020304; 2147483647 is the largest integer of the model
ByteAmounts == {-1, 16909060, 2147483647}
ByteFees == {258}
ByteBlocksToLive == {0, 65537}
\* no memo, "AB-00-EF" and "AZ-09-AZ-09-..." of MaxRawMemo characters
ByteMemos == {None, Some(<<"A", "B", "-", "0", "0", "-", "E", "F">>),
              Some([i \in 1..MaxRawMemo |-> PatternChar(i)])}
ByteParams ==
    LET given == [sourceAddress : ByteSourceAddresses,
                  destinationTag : ByteDestinationTags, amount : ByteAmounts,
                  fee : ByteFees, changePk : ByteChangePks, memo : ByteMemos,
                  blockToLive : ByteBlocksToLive]
    IN  given \cup {[f \in DOMAIN p \ {"sourceAddress"} |-> p[f]] : p \in given}

CallCreateTransactionBytes(p) ==
    /\ bytesCall = "none"
    /\ bytesCall' = "createTransactionBytes"
    /\ bytesArg' = p
    /\ bytesRet' = IF CreateTransactionBytesThrows(p)
                   THEN Thrown(CreateTransactionBytesError(p))
                   ELSE Returned(CreateTransactionBytes(p))
    /\ UNCHANGED <<client, runs, sent, seqVars, memoVars>>

\* the byte strings createSignature is given
SigByteValues == {0, 10, 171, 255}
SigBytes == UNION {[1..n -> SigByteValues] : n \in 0..MaxSigBytes}

CallCreateSignature(publicKey, unsignedTx, signatureBytes) ==
    /\ bytesCall = "none"
    /\ bytesCall' = "createSignature"
    /\ bytesArg' = [publicKey |-> publicKey, unsignedTx |-> unsignedTx,
                    signatureBytes |-> signatureBytes]
    /\ bytesRet' = Returned(CreateSignature(publicKey, unsignedTx, signatureBytes))
    /\ UNCHANGED <<client, runs, sent, seqVars, memoVars>>

NextBytes ==
    \/ \E p \in ByteParams : CallCreateTransactionBytes(p)
    \/ \E pk \in SigBytes, utx \in {"utx1", "utx2"}, sig \in SigBytes :
           CallCreateSignature(pk, utx, sig)

\* neither function reads the clock or the client
InitBytes == Init /\ now = 0 /\ client.baseUrl = "https://node-b"
SpecBytes == InitBytes /\ [][NextBytes]_vars

Next ==
    \/ \E p \in BuildParams : CallBuildTransaction(p)
    \/ \E a \in Amounts, f \in Amounts, m \in Memos : CallBuildAndSignTransaction(a, f, m)
    \/ \E stx \in SignedTransactions, t \in MonitorTimeouts : CallSubmitAndMonitor(stx, t)
    \/ \E h \in Hashes, t \in Timeouts, i \in Intervals : CallWaitForTransaction(h, t, i)
    \/ \E o \in Outcomes("/construction/preprocess") : PreprocessSettles(o)
    \/ \E o \in Outcomes("/construction/metadata") : MetadataSettles(o)
    \/ \E o \in Outcomes("/construction/payloads") : PayloadsSettles(o)
    \/ \E o \in Outcomes("/construction/combine") : CombineSettles(o)
    \/ \E o \in Outcomes("/construction/submit") : SignSubmitSettles(o)
    \/ \E o \in Outcomes("/construction/submit") : MonitorSubmitSettles(o)
    \/ \E l \in Latencies, o \in Outcomes("/mempool/transaction") : LookupSettles(l, o)
    \/ \E j \in Jitters : SleepEnds(j)
    \/ \E m \in ClientMethods, opt \in ListOptions : CallClientMethod(m, opt)
    \/ \E o \in AllOutcomes : ClientSettles(o)

Spec == Init /\ [][Next]_vars

\* waitForTransaction called on its own, where every await of the monitor
\* settles: each lookup completes and each timer fires (the event loop runs
\* the continuation)
NextWait ==
    \/ \E h \in Hashes, t \in Timeouts, i \in Intervals : CallWaitForTransaction(h, t, i)
    \/ \E l \in Latencies, o \in Outcomes("/mempool/transaction") : LookupSettles(l, o)
    \/ \E j \in Jitters : SleepEnds(j)

SpecLive ==
    /\ Init /\ [][NextWait]_vars
    /\ WF_vars(\E l \in Latencies, o \in Outcomes("/mempool/transaction") :
                   LookupSettles(l, o))
    /\ WF_vars(\E j \in Jitters : SleepEnds(j))

TypeOK ==
    /\ pc \in {"idle", "preprocess", "metadata", "payloads", "combine", "submit",
               "lookup", "sleep", "request", "done"}
    /\ now \in 0..MaxClock
    /\ nLookups < MaxCount /\ nSleeps < MaxCount
    /\ outcome.st \in {"pending", "value", "error"}


(***************************************************************************)
(* What the claims speak of.                                               *)
(***************************************************************************)
PRE  == "/construction/preprocess"
META == "/construction/metadata"
PAY  == "/construction/payloads"
COMB == "/construction/combine"
SUBM == "/construction/submit"

IsReq(i, ep) == trace[i].t = "req" /\ trace[i].ep = ep
IsRet(i, ep) == trace[i].t = "ret" /\ trace[i].ep = ep
\* the request at i-1 returned a value at i
RetOk(i, ep) == IsRet(i, ep) /\ trace[i].res.ok
\* the remote step settled at i failed: a transport error, an unreadable
\* body or an error envelope
StepFailed(i) ==
    /\ trace[i].t = "ret"
    /\ \/ trace[i].out.kind # "body"
       \/ "code" \in DOMAIN trace[i].out.body
NReq(ep) == Cardinality({i \in DOMAIN trace : IsReq(i, ep)})
Building == entry \in {"buildTransaction", "buildAndSignTransaction"}
Monitoring == entry \in {"waitForTransaction", "submitAndMonitor"} /\ wHash # Undefined
Elapsed == now - startTime

\* C1: in every run of buildTransaction the requests go out in the order
\* preprocess, metadata, payloads, each at most once; metadata is requested
\* only right after preprocess returned a value, and payloads only right
\* after metadata returned a value.
C1_BuildOrder ==
    Building =>
        /\ NReq(PRE) <= 1 /\ NReq(META) <= 1 /\ NReq(PAY) <= 1
        /\ \A i \in DOMAIN trace :
            /\ IsReq(i, PRE) => i = 1
            /\ IsReq(i, META) => i = 3 /\ IsReq(1, PRE) /\ RetOk(2, PRE)
                                 /\ ~StepFailed(2)
            /\ IsReq(i, PAY) => i = 5 /\ IsReq(3, META) /\ RetOk(4, META)
                                /\ ~StepFailed(4)

\* a run of buildTransaction that made all three requests and returned
C1_Witness ==
    /\ entry = "buildTransaction" /\ pc = "done" /\ outcome.st = "value"
    /\ NReq(PRE) = 1 /\ NReq(META) = 1 /\ NReq(PAY) = 1

\* C2: the options sent to metadata are the options preprocess returned,
\* the metadata sent to payloads is the metadata field the metadata call
\* returned, and the operations sent to payloads are those sent to preprocess.
C2_Forwarding ==
    Building =>
        \A i \in DOMAIN trace :
            /\ IsReq(i, META) =>
                   \E j \in 1..(i-1) :
                       /\ RetOk(j, PRE)
                       /\ trace[i].body.options = Get(trace[j].out.body, "options")
            /\ IsReq(i, PAY) =>
                   /\ \E j \in 1..(i-1) :
                       /\ RetOk(j, META)
                       /\ trace[i].body.metadata = Get(trace[j].out.body, "metadata")
                   /\ \E j \in 1..(i-1) :
                       /\ IsReq(j, PRE)
                       /\ trace[i].body.operations = trace[j].body.operations

\* payloads was requested in a run whose preprocess returned opt2 and whose
\* metadata call returned md2
C2_Witness ==
    /\ Building /\ Len(trace) >= 5 /\ IsReq(5, PAY)
    /\ trace[2].out.body = [options |-> "opt2", required_public_keys |-> "rpk"]
    /\ trace[4].out.body = [metadata |-> "md2", suggested_fee |-> "sf"]
    /\ trace[5].body.metadata = "md2"

\* C3: a remote step that fails ends the run at once: nothing is requested
\* after it, the step is not requested again, and the caller gets a failure.
C3_AbortOnFailure ==
    \A i \in DOMAIN trace :
        StepFailed(i) =>
            /\ i = Len(trace)
            /\ NReq(trace[i].ep) = 1
            /\ pc = "done"
            /\ outcome.st = "error"

\* buildAndSignTransaction whose combine step got an error envelope
C3_Witness ==
    /\ entry = "buildAndSignTransaction"
    /\ Len(trace) = 8
    /\ IsRet(8, COMB) /\ StepFailed(8) /\ trace[8].out.kind = "body"
    /\ outcome.st = "error"


FailKinds == {"envelope", "transport", "unparsable"}
WaitFailed == Monitoring /\ pc = "done" /\ outcome.st = "error"
WaitErrors == {TimeoutError(wHash), NotFoundAfterError(wHash, wTimeout)}

\* C4 as stated: when every lookup fails, waitForTransaction fails with a
\* timeout error at an elapsed time no earlier than timeout and no later
\* than timeout plus one interval.
C4_WithinOneInterval ==
    WaitFailed =>
        /\ outcome.err \in WaitErrors
        /\ wTimeout <= Elapsed
        /\ Elapsed <= wTimeout + wInterval

\* C4 amended: when every lookup fails, waitForTransaction fails with a
\* timeout error at an elapsed time no earlier than timeout, and earlier
\* than timeout plus the duration of the last lookup or sleep it awaited
\* (at once when timeout is 0 and nothing is awaited).
C4_WithinLastAwait ==
    WaitFailed =>
        /\ outcome.err \in WaitErrors
        /\ wTimeout <= Elapsed
        /\ IF nLookups = 0 THEN Elapsed = 0 ELSE Elapsed < wTimeout + lastAwait

\* a call that failed later than timeout plus one interval, after two
\* failed lookups
C4_Witness ==
    /\ WaitFailed /\ nLookups >= 2 /\ found = Unset
    /\ Elapsed > wTimeout + wInterval

\* C5: once started, waitForTransaction ends: it returns a record or fails.
C5_Terminates == Monitoring ~> (pc = "done")

\* a call that ended after three lookups
C5_Witness == Monitoring /\ pc = "done" /\ nLookups >= 3

\* C6 as stated, the part that fails: after a failed lookup the monitor
\* sleeps and then looks the hash up again, so no call ends on a sleep.
C6_AlwaysLooksUpAgain ==
    /\ nSleeps <= nLookups /\ nLookups <= nSleeps + 1
    /\ (Monitoring /\ pc = "sleep") => outcome = Pending /\ sleepReq = wInterval
    /\ (Monitoring /\ pc = "done") => lastEv # "sleep"

\* C6 amended: a failed lookup that settles before the timeout has elapsed
\* is not surfaced; the monitor sleeps for interval and then, if the elapsed
\* time is still below timeout, looks up the same hash again, and otherwise
\* fails with the timeout error; a further lookup is issued only when a
\* sleep of interval ends.
C6_Retry ==
    [][ /\ (pc = "lookup" /\ lastRes' \in FailKinds /\ now' - startTime < wTimeout)
            => /\ pc' = "sleep" /\ outcome' = Pending
               /\ sleepReq' = wInterval /\ nSleeps' = nSleeps + 1
        /\ pc = "sleep"
            => /\ now' - now >= wInterval
               /\ IF now' - startTime < wTimeout
                  THEN /\ pc' = "lookup" /\ lookHash' = wHash
                       /\ nLookups' = nLookups + 1 /\ outcome' = Pending
                  ELSE /\ pc' = "done" /\ outcome' = Thrown(TimeoutError(wHash))
                       /\ nLookups' = nLookups
        /\ (nLookups' # nLookups /\ nLookups >= 1)
            => pc = "sleep" /\ sleepReq = wInterval
      ]_vars

\* a second lookup under way after a failed first one and one sleep
C6_Witness ==
    /\ Monitoring /\ pc = "lookup" /\ nLookups = 2 /\ nSleeps = 1
    /\ lastRes \in FailKinds /\ outcome = Pending

\* C7: the first lookup that succeeds ends the call, and its response is
\* what the caller gets, unchanged; nothing is looked up or slept afterwards.
C7_FirstSuccessReturns ==
    /\ found # Unset =>
           /\ pc = "done" /\ outcome = Returned(found)
           /\ lastRes = "found" /\ lastEv = "lookup"
    /\ lastRes = "found" => found # Unset
    /\ (Monitoring /\ outcome.st = "value") => found # Unset

\* a call that returned a record with metadata from its third lookup
C7_Witness ==
    /\ found = [transaction |-> "tx2", metadata |-> "m"]
    /\ nLookups = 3 /\ outcome.st = "value"

\* C8: every failure of waitForTransaction is one of its two timeout errors,
\* is none of the errors a lookup rejects with, and is raised only when the
\* elapsed time is at least timeout.
C8_OnlyTimeoutFailures ==
    WaitFailed =>
        /\ outcome.err \in WaitErrors
        /\ outcome.err \notin LookupErrors
        /\ Elapsed >= wTimeout

\* a call that failed in the catch block, right after a lookup that
\* reported not found
C8_Witness ==
    /\ WaitFailed /\ wTimeout > 0 /\ lastEv = "lookup" /\ lastRes = "envelope"
    /\ outcome.err = NotFoundAfterError(wHash, wTimeout)

\* C9 as stated: a lookup that fails with a transport error is not retried.
C9_TransportNotRetried == "transport" \notin retried

\* C9 amended: the monitor retries after any failed lookup, whatever the
\* reason: a lookup that fails with a transport error (or an unreadable
\* body) is followed by a sleep and a retry as long as the timeout has not
\* elapsed, and its error never reaches the caller.
C9_RetriesAnyFailure ==
    [][ (pc = "lookup" /\ lastRes' \in {"transport", "unparsable"})
            => /\ (now' - startTime < wTimeout) => pc' = "sleep" /\ outcome' = Pending
               /\ (now' - startTime >= wTimeout)
                      => outcome' = Thrown(NotFoundAfterError(wHash, wTimeout))
      ]_vars

\* a lookup was issued again after one that failed with a transport error
C9_Witness == Monitoring /\ "transport" \in retried

\* the submit response at i carries a transaction hash
CarriesHash(body) ==
    /\ "transaction_identifier" \in DOMAIN body
    /\ "hash" \in DOMAIN body.transaction_identifier
    /\ body.transaction_identifier.hash # ""

\* C10: in submitAndMonitor a submit response without a hash makes the call
\* fail with no lookup issued; with a hash, waitForTransaction is started
\* with that hash and the caller's timeout, after submit has returned.
C10_SubmitThenMonitor ==
    entry = "submitAndMonitor" =>
        /\ IsReq(1, SUBM) /\ trace[1].body.signed_transaction = signedArg
        /\ NReq(SUBM) = 1
        /\ (Len(trace) = 1) => ~Monitoring /\ nLookups = 0
        /\ (Len(trace) = 2 /\ RetOk(2, SUBM) /\ ~CarriesHash(trace[2].out.body))
             => /\ ~Monitoring /\ nLookups = 0
                /\ pc = "done" /\ outcome = Thrown(NoHashError)
        /\ (Len(trace) = 2 /\ RetOk(2, SUBM) /\ CarriesHash(trace[2].out.body))
             => /\ Monitoring
                /\ wHash = trace[2].out.body.transaction_identifier.hash
                /\ wTimeout = cTimeout
                /\ wInterval = DefaultInterval
                /\ nLookups > 0 => lookHash = wHash
        /\ Monitoring => Len(trace) = 2 /\ RetOk(2, SUBM)

\* submit answered with an empty hash and the call failed
C10_Witness ==
    /\ entry = "submitAndMonitor" /\ Len(trace) = 2
    /\ trace[2].out = [kind |-> "body",
                       body |-> [transaction_identifier |-> [hash |-> ""]]]
    /\ outcome = Thrown(NoHashError)

\* a run of buildAndSignTransaction whose submit request has been answered
\* with a JSON body that is no error envelope
SubmitAnswered ==
    /\ entry = "buildAndSignTransaction"
    /\ Len(trace) = 10 /\ RetOk(10, SUBM)

\* C11: in buildAndSignTransaction a submit response that carries no
\* transaction hash is fatal: the run fails, it returns no result.
C11_NoHashIsFatal ==
    (SubmitAnswered /\ ~CarriesHash(trace[10].out.body))
        => pc = "done" /\ outcome.st = "error"

\* the request at i-1 and its return at i are the step ep, which succeeded
StepDone(i, ep) == IsReq(i - 1, ep) /\ RetOk(i, ep)

\* the five construction steps were made in order, one after the other
\* returned, and the signature given to combine was made over the unsigned
\* transaction that payloads returned
PipelineSteps ==
    /\ Len(trace) = 10
    /\ StepDone(2, PRE) /\ StepDone(4, META) /\ StepDone(6, PAY)
    /\ StepDone(8, COMB) /\ StepDone(10, SUBM)
    /\ buildRes = trace[6].out.body
    /\ trace[7].body.unsigned_transaction = trace[6].out.body.unsigned_transaction
    /\ trace[7].body.signatures = sigs
    /\ Len(sigs) = 1
    /\ sigs[1].signing_payload.hex_bytes = trace[6].out.body.unsigned_transaction
    /\ trace[9].body.signed_transaction = trace[8].out.body.signed_transaction

\* C12 as stated: a run of the pipeline that does not fail has made the
\* five construction steps in order and has then polled the mempool for the
\* submitted identifier until it was observed, and only then completed.
C12_MonitoredBeforeComplete ==
    (entry = "buildAndSignTransaction" /\ pc = "done" /\ outcome.st = "value")
        => /\ PipelineSteps
           /\ Monitoring /\ nLookups >= 1 /\ found # Unset

\* C12 amended: a run of buildAndSignTransaction that does not fail has made
\* the five construction steps in order (operations, preprocess, metadata,
\* payloads, signing, combine, submit) and completes as soon as submit
\* returns, handing back the build result, the submit response and the
\* signed transaction without any mempool lookup.  Polling is a separate
\* call: submitAndMonitor, after its own submit returned the identifier,
\* looks that identifier up until it is observed or the timeout elapses,
\* and only then completes.
C12_SubmitCompletes ==
    /\ (entry = "buildAndSignTransaction" /\ pc = "done" /\ outcome.st = "value")
        => /\ PipelineSteps
           /\ outcome.val = [buildResult |-> trace[6].out.body,
                             submitResult |-> trace[10].out.body,
                             signedTransaction |->
                                 trace[8].out.body.signed_transaction]
    /\ (SubmitAnswered /\ CarriesHash(trace[10].out.body))
        => pc = "done" /\ outcome.st = "value"
    /\ entry = "buildAndSignTransaction"
        => ~Monitoring /\ nLookups = 0 /\ nSleeps = 0
    /\ (entry = "submitAndMonitor" /\ pc = "done" /\ outcome.st = "value")
        => /\ StepDone(2, SUBM) /\ CarriesHash(trace[2].out.body)
           /\ nLookups >= 1 /\ lookHash = SubmitHash(trace[2].out.body)
           /\ outcome = Returned(found)
    /\ (entry = "submitAndMonitor" /\ Monitoring /\ pc = "done"
            /\ outcome.st = "error")
        => outcome.err \in WaitErrors /\ Elapsed >= wTimeout

\* buildAndSignTransaction returned the transaction identifier h1 without
\* having looked it up in the mempool
C12_Witness ==
    /\ entry = "buildAndSignTransaction" /\ pc = "done" /\ outcome.st = "value"
    /\ outcome.val.submitResult = [transaction_identifier |-> [hash |-> "h1"]]
    /\ nLookups = 0

\* the order in which buildAndSignTransaction makes its remote calls
StepOrder == <<PRE, META, PAY, COMB, SUBM>>
\* requests of the first i entries of the trace that have not returned yet
Outstanding(i) ==
    Cardinality({j \in 1..i : trace[j].t = "req"})
        - Cardinality({j \in 1..i : trace[j].t = "ret"})

\* C13: in every run of buildAndSignTransaction the remote calls are made in
\* the order preprocess, metadata, payloads, combine, submit, each at most
\* once, each only after the one before it has returned, and the run never
\* has two requests outstanding.
C13_Sequential ==
    entry = "buildAndSignTransaction" =>
        /\ Len(trace) <= 2 * Len(StepOrder)
        /\ \A ep \in {StepOrder[k] : k \in DOMAIN StepOrder} : NReq(ep) <= 1
        /\ \A i \in DOMAIN trace :
            /\ Outstanding(i) \in {0, 1}
            /\ trace[i].t = "req" =>
                   /\ i % 2 = 1
                   /\ trace[i].ep = StepOrder[(i + 1) \div 2]
                   /\ i > 1 => RetOk(i - 1, StepOrder[(i - 1) \div 2])
            /\ trace[i].t = "ret" =>
                   /\ i % 2 = 0
                   /\ IsReq(i - 1, trace[i].ep)

\* a run that has made all five calls and is waiting for submit to return
C13_Witness ==
    /\ entry = "buildAndSignTransaction" /\ pc = "submit"
    /\ Len(trace) = 9 /\ IsReq(9, SUBM) /\ Outstanding(9) = 1
    /\ NReq(PRE) = 1 /\ NReq(META) = 1 /\ NReq(PAY) = 1 /\ NReq(COMB) = 1

\* the return at i is a JSON body with a `code` field
GotEnvelope(i) ==
    /\ trace[i].t = "ret" /\ trace[i].out.kind = "body"
    /\ "code" \in DOMAIN trace[i].out.body
\* the error that carries the server's message
EnvelopeError(body) == Err(<<"Rosetta API Error: ", body.message>>)
EnvelopeErrors == {EnvelopeError(b) : b \in Envelopes}

\* C14 as stated: for every client method, waitForTransaction included, a
\* response with a `code` field makes the call fail with an error carrying
\* the server's message, and the request is not made again.
C14_EnvelopeFailsCall ==
    /\ \A i \in DOMAIN trace :
           GotEnvelope(i) =>
               /\ ~trace[i].res.ok
               /\ pc = "done" /\ outcome = Thrown(EnvelopeError(trace[i].out.body))
               /\ NReq(trace[i].ep) = 1
    /\ (entry = "waitForTransaction" /\ lastRes = "envelope")
           => /\ pc = "done" /\ outcome.st = "error"
              /\ outcome.err \in EnvelopeErrors

\* C14 amended: for every client method that makes one request, a response
\* whose body has a `code` field is never returned as a value: the method
\* fails with the error "Rosetta API Error: " followed by the server's
\* message, the caller of the pipeline gets that error, and the request is
\* not made again.  waitForTransaction is the exception: an error envelope
\* answering one of its lookups is not surfaced; the lookup is made again
\* until the timeout, and the call fails only with its timeout errors.
C14_EnvelopeSurfaced ==
    /\ \A i \in DOMAIN trace :
           GotEnvelope(i) =>
               /\ trace[i].res = Reject(EnvelopeError(trace[i].out.body))
               /\ i = Len(trace)
               /\ NReq(trace[i].ep) = 1
               /\ pc = "done" /\ outcome = Thrown(EnvelopeError(trace[i].out.body))
    /\ (entry \in ClientMethods /\ outcome.st = "value")
           => "code" \notin DOMAIN outcome.val
    /\ (Monitoring /\ lastRes = "envelope")
           => /\ outcome.st # "value"
              /\ pc \in {"sleep", "lookup", "done"}
              /\ pc = "done" => outcome.err \in WaitErrors
                                /\ outcome.err \notin EnvelopeErrors

\* resolveTag was answered with the envelope "Invalid request" and failed
\* with that message
C14_Witness ==
    /\ entry = "resolveTag" /\ Len(trace) = 2 /\ GotEnvelope(2)
    /\ outcome = Thrown(Err(<<"Rosetta API Error: ", "Invalid request">>))

\* the network call whose return is at i failed: fetch rejected
TransportFailed(i) == trace[i].t = "ret" /\ trace[i].out.kind = "reject"

\* C15 as stated: when the network call fails, the caller of any client
\* method, waitForTransaction included, and of buildTransaction gets the
\* very error the transport raised.
C15_TransportErrorReachesCaller ==
    /\ \A i \in DOMAIN trace :
           TransportFailed(i) => pc = "done" /\ outcome = Thrown(trace[i].out.err)
    /\ (entry = "waitForTransaction" /\ lastRes = "transport")
           => pc = "done" /\ outcome.st = "error" /\ outcome.err \in TransportErrors

\* C15 amended: when the network call of a client method that makes one
\* request fails, the method rejects with the very error the transport
\* raised, and so do buildTransaction and the other builder methods that
\* called it: nothing is requested afterwards and the error is not wrapped
\* or replaced.  In waitForTransaction a transport error of a lookup is
\* swallowed: the call goes on polling and fails only with its timeout
\* errors.
C15_TransportErrorUnchanged ==
    /\ \A i \in DOMAIN trace :
           TransportFailed(i) =>
               /\ trace[i].res = Reject(trace[i].out.err)
               /\ i = Len(trace)
               /\ pc = "done" /\ outcome = Thrown(trace[i].out.err)
    /\ (Monitoring /\ lastRes = "transport")
           => /\ outcome.st # "value"
              /\ pc = "done" => outcome.err \in WaitErrors
                                /\ outcome.err \notin TransportErrors

\* buildTransaction whose metadata request was aborted failed with the
\* abort error
C15_Witness ==
    /\ entry = "buildTransaction" /\ Len(trace) = 4 /\ TransportFailed(4)
    /\ outcome = Thrown(Err(<<"The operation was aborted">>))

\* the history of call r
H(r) == sent[r]
ReqAt(r, i, ep) == i \in DOMAIN H(r) /\ H(r)[i].t = "req" /\ H(r)[i].ep = ep
OkAt(r, i, ep) ==
    i \in DOMAIN H(r) /\ H(r)[i].t = "ret" /\ H(r)[i].ep = ep /\ H(r)[i].res.ok

\* C16: however the calls of buildTransaction on one client are interleaved,
\* each call's metadata request carries the options its own preprocess
\* returned, its payloads request carries its own operations and the
\* metadata its own metadata request returned, its result is what its own
\* payloads request returned, and the client's base URL and network
\* identifier are never written: every request goes to the base URL with
\* the network identifier the client was constructed with.
C16_NoInterference ==
    /\ client.networkIdentifier = NETWORK_IDENTIFIER
    /\ \A r \in Runs :
        /\ \A i \in DOMAIN H(r) :
            /\ H(r)[i].t = "req" =>
                   /\ H(r)[i].url = <<client.baseUrl, H(r)[i].ep>>
                   /\ H(r)[i].body.network_identifier = NETWORK_IDENTIFIER
            /\ ReqAt(r, i, PRE) =>
                   /\ i = 1
                   /\ H(r)[i].body.operations = Operations(runs[r].params)
            /\ ReqAt(r, i, META) =>
                   /\ i = 3 /\ OkAt(r, 2, PRE)
                   /\ H(r)[i].body.options = Get(H(r)[2].out.body, "options")
                   /\ H(r)[i].body.public_keys = PublicKeys(runs[r].params)
            /\ ReqAt(r, i, PAY) =>
                   /\ i = 5 /\ OkAt(r, 4, META)
                   /\ H(r)[i].body.operations = H(r)[1].body.operations
                   /\ H(r)[i].body.metadata = Get(H(r)[4].out.body, "metadata")
                   /\ H(r)[i].body.public_keys = H(r)[3].body.public_keys
        /\ runs[r].outcome.st = "value" =>
               /\ OkAt(r, 6, PAY)
               /\ runs[r].outcome.val = H(r)[6].out.body

\* two calls with different amounts are both waiting for payloads, call 1
\* having got opt1 and md2, call 2 opt2 and md1
C16_Witness ==
    /\ runs[1].pc = "payloads" /\ runs[2].pc = "payloads"
    /\ runs[1].params.amount # runs[2].params.amount
    /\ H(1)[3].body.options = "opt1" /\ H(2)[3].body.options = "opt2"
    /\ H(1)[5].body.metadata = "md2" /\ H(2)[5].body.metadata = "md1"

\* the request is a POST to the client's base URL followed by the endpoint
\* path, with the network identifier of mochimo mainnet in its body
WellFormed(req) ==
    /\ req.method = "POST"
    /\ req.url = <<client.baseUrl, req.ep>>
    /\ "network_identifier" \in DOMAIN req.body
    /\ req.body.network_identifier = [blockchain |-> "mochimo", network |-> "mainnet"]

\* C17: every request a client method makes, on its own, in the pipeline or
\* in the monitor, is an HTTP POST to the base URL followed by the endpoint
\* path, and its body contains network_identifier = {blockchain: "mochimo",
\* network: "mainnet"}.
C17_PostWithNetwork ==
    /\ \A i \in DOMAIN trace : trace[i].t = "req" => WellFormed(trace[i])
    /\ nLookups > 0 =>
           /\ WellFormed(lookReq)
           /\ lookReq.ep = "/mempool/transaction"
           /\ lookReq.body.transaction_identifier = [hash |-> wHash]
    /\ (entry \in ClientMethods /\ Len(trace) >= 1) =>
           /\ trace[1].t = "req"
           /\ trace[1].ep = ClientEndpoint(entry)

\* submitAndMonitor on a client of https://node-b has made its submit
\* request and, for the hash h2 it got, its second lookup
C17_Witness ==
    /\ entry = "submitAndMonitor" /\ Monitoring /\ nLookups = 2
    /\ trace[1].url = <<"https://node-b", "/construction/submit">>
    /\ lookReq.url = <<"https://node-b", "/mempool/transaction">>
    /\ lookReq.body.transaction_identifier = [hash |-> "h2"]

\* the kinds of the characters of a memo
Letter(memo, i) == IsUpper(memo[i])
Digit(memo, i)  == IsDigit(memo[i])
Dash(memo, i)   == memo[i] = "-"

\* the memo grammar: only A-Z, 0-9 and '-'; no dash first or last; no empty
\* group (no two dashes in a row); every group all letters or all digits
\* (neighbours within a group are of one kind); adjacent groups of different
\* kinds (the characters on the two sides of a dash differ in kind)
MemoGrammar(memo) ==
    \/ memo = <<>>
    \/ /\ \A i \in DOMAIN memo : Letter(memo, i) \/ Digit(memo, i) \/ Dash(memo, i)
       /\ ~Dash(memo, 1) /\ ~Dash(memo, Len(memo))
       /\ \A i \in 1..(Len(memo) - 1) :
            /\ ~(Dash(memo, i) /\ Dash(memo, i + 1))
            /\ (~Dash(memo, i) /\ ~Dash(memo, i + 1))
                   => (Letter(memo, i) <=> Letter(memo, i + 1))
       /\ \A i \in 2..(Len(memo) - 1) :
            (Dash(memo, i) /\ ~Dash(memo, i - 1) /\ ~Dash(memo, i + 1))
                   => (Letter(memo, i - 1) <=> Digit(memo, i + 1))

\* C18: isValidMemo(memo) returns true exactly when memo is the empty string
\* or obeys the memo grammar, and false for every other string.
C18_ValidIffGrammar ==
    memoCall = "isValidMemo" =>
        /\ memoRet \in BOOLEAN
        /\ memoRet <=> MemoGrammar(memoArg)

\* isValidMemo accepted "AZ-09-AZ-09"
C18_Witness ==
    /\ memoCall = "isValidMemo" /\ memoRet = TRUE
    /\ memoArg = <<"A", "Z", "-", "0", "9", "-", "A", "Z", "-", "0", "9">>

\* C19: formatMemo(memo) returns exactly 16 bytes; all are zero when memo is
\* empty or fails isValidMemo; otherwise bytes 0..k-1 are the character
\* codes of the first k = min(length, 15) characters, and byte k and every
\* byte after it are zero, so byte 15 is always zero.
C19_SixteenBytes ==
    memoCall = "formatMemo" =>
        /\ DOMAIN memoRet = 0..15
        /\ \A i \in 0..15 : memoRet[i] \in 0..255
        /\ memoRet[15] = 0
        /\ IF memoArg = <<>> \/ ~IsValidMemo(memoArg)
           THEN \A i \in 0..15 : memoRet[i] = 0
           ELSE LET k == Min(Len(memoArg), 15) IN
                /\ \A i \in 0..(k - 1) : memoRet[i] = CharCode[memoArg[i + 1]]
                /\ \A i \in k..15 : memoRet[i] = 0

\* formatMemo was given the 17 characters "AZ-09-AZ-09-AZ-09" and kept 15
C19_Witness ==
    /\ memoCall = "formatMemo" /\ Len(memoArg) = 17 /\ IsValidMemo(memoArg)
    /\ memoArg[3] = "-" /\ memoRet[14] = 45 /\ memoRet[15] = 0

\* the run builds a transaction with a memo that violates the format rules
InvalidMemoGiven ==
    /\ Building /\ params # Unset
    /\ params.memo # None /\ ~IsValidMemo(params.memo[1])

\* C20: building a transaction (buildTransaction or buildAndSignTransaction)
\* with a memo that violates the memo format rules fails with an error.
C20_InvalidMemoFails ==
    (InvalidMemoGiven /\ pc = "done") => outcome.st = "error"

\* createTransactionBytes was called and returned buf for the params p
EncodedBytes == bytesCall = "createTransactionBytes" /\ bytesRet.st = "value"
\* str is hex digits only, an even number of them
IsHexString(str) ==
    Len(str) % 2 = 0 /\ \A i \in DOMAIN str : HexValue(str[i]) >= 0
\* the bytes a hex field of the params denotes
FieldBytes(str) == HexDecode(StripPrefix(str))
\* a valid input: three hex fields of at most 40 bytes, with or without
\* the prefix, and numbers in their ranges
ValidHexField(str) == IsHexString(StripPrefix(str)) /\ Len(FieldBytes(str)) <= 40
ValidBytesInput(p) ==
    /\ "sourceAddress" \in DOMAIN p
    /\ ValidHexField(p.sourceAddress)
    /\ ValidHexField(p.changePk)
    /\ ValidHexField(p.destinationTag)
    /\ InUInt64(p.amount) /\ InUInt64(p.fee) /\ InUInt32(p.blockToLive)
\* the 40-byte slot at off holds bytes and then zeros
SlotHolds(buf, off, bytes) ==
    \A i \in 0..39 : buf[off + i] = IF i < Len(bytes) THEN bytes[i + 1] ELSE 0
\* the unsigned little-endian number in the width bytes at off; -1 when it
\* is beyond the integers of the model
ReadUIntLE(buf, off, width) ==
    IF buf[off + 3] >= 128 \/ \E k \in 4..(width - 1) : buf[off + k] # 0 THEN -1
    ELSE buf[off] + 256 * buf[off + 1] + 65536 * buf[off + 2]
         + 16777216 * buf[off + 3]
MemoText(p) == IF p.memo = None THEN <<>> ELSE p.memo[1]

\* C21: for every valid input createTransactionBytes returns 2304 bytes:
\* version 0 at 0..3, the source address at 4, the change public-key hash
\* at 44 and the destination tag at 84 (40 bytes each, zero after the
\* field), amount and fee as unsigned 64-bit little-endian at 124 and 132,
\* block-to-live as unsigned 32-bit little-endian at 140, the first 32
\* bytes of the memo at 144, and zero everywhere else, 176..2303 included;
\* decoding 124 and 132 gives back amount and fee
C21_BufferLayout ==
    (bytesCall = "createTransactionBytes" /\ ValidBytesInput(bytesArg)) =>
        /\ bytesRet.st = "value"
        /\ LET buf == bytesRet.val
               p == bytesArg
           IN  /\ DOMAIN buf = 0..2303
               /\ \A i \in 0..3 : buf[i] = 0
               /\ SlotHolds(buf, 4, FieldBytes(p.sourceAddress))
               /\ SlotHolds(buf, 44, FieldBytes(p.changePk))
               /\ SlotHolds(buf, 84, FieldBytes(p.destinationTag))
               /\ buf[124] = p.amount % 256 /\ ReadUIntLE(buf, 124, 8) = p.amount
               /\ buf[132] = p.fee % 256 /\ ReadUIntLE(buf, 132, 8) = p.fee
               /\ buf[140] = p.blockToLive % 256
               /\ ReadUIntLE(buf, 140, 4) = p.blockToLive
               /\ \A i \in 0..31 :
                      buf[144 + i] = IF i < Len(MemoText(p))
                                     THEN CharCode[MemoText(p)[i + 1]] ELSE 0
               /\ \A i \in 176..2303 : buf[i] = 0
\* a valid input with a 40-byte source address, a 20-byte destination tag,
\* the amount 0x01020304 and a memo of more than 32 characters was encoded
C21_Witness ==
    /\ EncodedBytes /\ ValidBytesInput(bytesArg)
    /\ Len(FieldBytes(bytesArg.sourceAddress)) = 40
    /\ Len(FieldBytes(bytesArg.destinationTag)) = 20
    /\ bytesArg.amount = 16909060 /\ bytesArg.fee = 258
    /\ bytesArg.blockToLive = 65537
    /\ Len(MemoText(bytesArg)) > 32
    /\ bytesRet.val[124] = 4 /\ bytesRet.val[127] = 1
    /\ bytesRet.val[175] # 0 /\ bytesRet.val[176] = 0

\* the same hex string with the prefix taken off, or put on
TogglePrefix(str) ==
    IF StartsWith0x(str) THEN SubSeq(str, 3, Len(str)) ELSE With0x(str)
HexFields == {"sourceAddress", "changePk", "destinationTag"}

\* C22: for each of sourceAddress, destinationTag and changePk the buffer is
\* the same whether the hex string has a leading 0x or not, all other inputs
\* being equal
C22_PrefixIgnored ==
    EncodedBytes =>
        \A f \in HexFields :
            bytesRet.val = CreateTransactionBytes([bytesArg EXCEPT ![f] = TogglePrefix(@)])
\* all three fields were given with the prefix and their bytes are in the
\* buffer
C22_Witness ==
    /\ EncodedBytes
    /\ \A f \in HexFields : StartsWith0x(bytesArg[f]) /\ Len(FieldBytes(bytesArg[f])) >= 20
    /\ bytesRet.val[4] = SourceWalletAddress[1]
    /\ bytesRet.val[44] = ChangeWalletAddrHash[1]
    /\ bytesRet.val[84] = PatternBytes(20, 3)[1]

\* the 40-byte slot of each hex field
Slot(f) ==
    CASE f = "sourceAddress" -> 4..43
      [] f = "changePk" -> 44..83
      [] f = "destinationTag" -> 84..123

\* C23: a hex field never exceeds its 40-byte slot: whatever the length of
\* the hex strings, the bytes of sourceAddress are only at 4..43, those of
\* changePk only at 44..83 and those of destinationTag only at 84..123, so
\* outside its slot the buffer is what it is when the field is empty
C23_FieldsStayInSlots ==
    EncodedBytes =>
        \A f \in HexFields :
            LET without == CreateTransactionBytes([bytesArg EXCEPT ![f] = <<>>])
            IN  \A i \in (0..(TxBufferSize - 1)) \ Slot(f) : bytesRet.val[i] = without[i]

\* the request at i of the trace carries an operation list
SendsOperations(i) == IsReq(i, PRE) \/ IsReq(i, PAY)
OperationTypes == <<"SOURCE_TRANSFER", "DESTINATION_TRANSFER", "FEE">>

\* C24: for every amount A and fee F the operation list sent to preprocess
\* and to payloads has exactly three operations, with operation index 0, 1,
\* 2 and types SOURCE_TRANSFER, DESTINATION_TRANSFER, FEE in that order,
\* whose amount values are the decimal strings of -A, A and F
C24_ThreeOperations ==
    Building =>
        \A i \in DOMAIN trace :
            SendsOperations(i) =>
                LET ops == trace[i].body.operations
                IN  /\ Len(ops) = 3
                    /\ \A k \in 1..3 :
                           /\ ops[k].operation_identifier = [index |-> k - 1]
                           /\ ops[k].type = OperationTypes[k]
                    /\ ops[1].amount.value = Dec(0 - params.amount)
                    /\ ops[2].amount.value = Dec(params.amount)
                    /\ ops[3].amount.value = Dec(params.fee)
\* buildTransaction with amount 1 and fee 0 sent its operations to
\* preprocess and to payloads
C24_Witness ==
    /\ entry = "buildTransaction"
    /\ params.amount = 1 /\ params.fee = 0
    /\ NReq(PRE) = 1 /\ NReq(PAY) = 1
    /\ \E i \in DOMAIN trace :
           /\ IsReq(i, PAY)
           /\ trace[i].body.operations[1].amount.value = Dec(-1)
           /\ trace[i].body.operations[3].amount.value = Dec(0)

\* the memo string the caller gave, "" when none was given
CallerMemo == IF params.memo = None THEN <<>> ELSE params.memo[1]

\* C25: in the operation list all three operations have status SUCCESS and
\* currency {symbol MCM, decimals 9}; operation 1's account is the
\* destination tag and operation 2's the source tag; operation 1, and only
\* operation 1, carries metadata.memo, which is the caller's memo string or
\* the empty string when no memo is given
C25_OperationFields ==
    Building =>
        \A i \in DOMAIN trace :
            SendsOperations(i) =>
                LET ops == trace[i].body.operations
                IN  /\ \A k \in DOMAIN ops :
                           /\ ops[k].status = "SUCCESS"
                           /\ ops[k].amount.currency = [symbol |-> "MCM", decimals |-> 9]
                           /\ "metadata" \in DOMAIN ops[k] <=> k = 2
                    /\ ops[2].account = [address |-> params.destinationTag]
                    /\ ops[3].account = [address |-> params.sourceTag]
                    /\ ops[2].metadata = [memo |-> CallerMemo]
\* buildTransaction given the memo AB-00-EF sent it in operation 1 to
\* payloads
C25_Witness ==
    /\ entry = "buildTransaction"
    /\ params.memo = Some(<<"A", "B", "-", "0", "0", "-", "E", "F">>)
    /\ \E i \in DOMAIN trace :
           /\ IsReq(i, PAY)
           /\ trace[i].body.operations[2].metadata.memo
                  = <<"A", "B", "-", "0", "0", "-", "E", "F">>
           /\ trace[i].body.operations[2].account.address = DestinationTag

\* the 16 bytes formatMemo makes of a memo, as the hex string a JSON field
\* carries them in (the form the client's tests give preprocess)
EncodedMemo(memo) == Hex([i \in 1..16 |-> FormatMemo(memo)[i - 1]])
\* the memo of operation 1 in the request at i of the trace
SentMemo(i) == trace[i].body.operations[2].metadata.memo

C27_OnePayload ==
    (entry = "buildTransaction" /\ outcome.st = "value") =>
        /\ "unsigned_transaction" \in DOMAIN outcome.val
        /\ outcome.val.unsigned_transaction \in {"utx1", "utx2"}
        /\ "payloads" \in DOMAIN outcome.val
        /\ Len(outcome.val.payloads) = 1

\* the params are invalid: the source address is missing, or one of the
\* strings createTransactionBytes decodes is not hexadecimal
NotHexField(str) == ~IsHexString(StripPrefix(str))
InvalidParams(p) ==
    \/ "sourceAddress" \notin DOMAIN p
    \/ NotHexField(p.sourceAddress)
    \/ NotHexField(p.destinationTag)
    \/ NotHexField(p.changePk)

\* C28: buildTransaction rejects when it is given invalid transaction
\* parameters (a missing source address, or strings that are not
\* hexadecimal): it never resolves with a payloads result for such input
C28_InvalidParamsRejected ==
    (entry = "buildTransaction" /\ InvalidParams(params)) => outcome.st # "value"

\* C29: createSignature(publicKey, unsignedTx, signatureBytes) returns an
\* object whose signing_payload.signature_type, public_key.curve_type and
\* signature_type are "wotsp", whose signing_payload.hex_bytes is unsignedTx
\* unchanged, and whose public_key.hex_bytes and hex_bytes are the hex of
\* publicKey and signatureBytes: decoding them gives back the same bytes
C29_SignatureObject ==
    bytesCall = "createSignature" =>
        /\ bytesRet.st = "value"
        /\ LET sig == bytesRet.val
               arg == bytesArg
           IN  /\ DOMAIN sig = {"signing_payload", "public_key", "signature_type",
                                "hex_bytes"}
               /\ sig.signing_payload = [hex_bytes |-> arg.unsignedTx,
                                         signature_type |-> "wotsp"]
               /\ DOMAIN sig.public_key = {"hex_bytes", "curve_type"}
               /\ sig.public_key.curve_type = "wotsp"
               /\ sig.signature_type = "wotsp"
               /\ IsHexString(sig.public_key.hex_bytes)
               /\ Len(sig.public_key.hex_bytes) = 2 * Len(arg.publicKey)
               /\ HexDecode(sig.public_key.hex_bytes) = arg.publicKey
               /\ IsHexString(sig.hex_bytes)
               /\ Len(sig.hex_bytes) = 2 * Len(arg.signatureBytes)
               /\ HexDecode(sig.hex_bytes) = arg.signatureBytes
\* createSignature was given the public key 0a ab and the signature ff 00
C29_Witness ==
    /\ bytesCall = "createSignature"
    /\ bytesArg.publicKey = <<10, 171>>
    /\ bytesArg.signatureBytes = <<255, 0>>
    /\ bytesArg.unsignedTx = "utx2"
    /\ bytesRet.val.public_key.hex_bytes = <<"0", "a", "a", "b">>
    /\ bytesRet.val.hex_bytes = <<"f", "f", "0", "0">>

\* C30: in buildAndSignTransaction combine is called with exactly the
\* unsigned_transaction string payloads returned and a list of exactly one
\* signature; submit is called with exactly the signed_transaction combine
\* returned; and the signedTransaction field of the result is the string
\* that was submitted
C30_CombineAndSubmitArguments ==
    entry = "buildAndSignTransaction" =>
        /\ \A i \in DOMAIN trace :
               IsReq(i, COMB) =>
                   /\ i > 1 /\ RetOk(i - 1, PAY)
                   /\ trace[i].body.unsigned_transaction
                          = trace[i - 1].out.body.unsigned_transaction
                   /\ Len(trace[i].body.signatures) = 1
                   /\ trace[i].body.signatures[1].signing_payload.hex_bytes
                          = trace[i - 1].out.body.unsigned_transaction
        /\ \A i \in DOMAIN trace :
               IsReq(i, SUBM) =>
                   /\ i > 1 /\ RetOk(i - 1, COMB)
                   /\ trace[i].body.signed_transaction
                          = trace[i - 1].out.body.signed_transaction
        /\ outcome.st = "value" =>
               \E i \in DOMAIN trace :
                   /\ IsReq(i, SUBM)
                   /\ outcome.val.signedTransaction = trace[i].body.signed_transaction
\* buildAndSignTransaction got utx2 from payloads and stx1 from combine,
\* submitted and returned
C30_Witness ==
    /\ entry = "buildAndSignTransaction" /\ outcome.st = "value"
    /\ Len(trace) = 10
    /\ trace[6].out.body.unsigned_transaction = "utx2"
    /\ trace[7].body.unsigned_transaction = "utx2"
    /\ trace[7].body.signatures[1].hex_bytes = Hex(WalletSign("utx2"))
    /\ trace[8].out.body.signed_transaction = "stx1"
    /\ trace[9].body.signed_transaction = "stx1"
    /\ outcome.val.signedTransaction = "stx1"

\* the range error of writeBigUInt64LE and writeUInt32LE
RangeError == Err(<<"The value of \"value\" is out of range.">>)
\* a number of the params is below its range (the upper ends, 2^64 and 2^32,
\* are beyond the integers of the model)
OutOfRange(p) == p.amount < 0 \/ p.fee < 0 \/ p.blockToLive < 0

\* C31: buildTransaction called with an amount or fee outside 0..2^64-1 (in
\* particular a negative amount) or a blockToLive outside 0..2^32-1 fails
\* before any remote request is issued: preprocess, metadata and payloads
\* are never called for such input
C31_OutOfRangeFailsFirst ==
    (entry = "buildTransaction" /\ OutOfRange(params)) =>
        /\ trace = <<>>
        /\ NReq(PRE) = 0 /\ NReq(META) = 0 /\ NReq(PAY) = 0
        /\ pc = "done" /\ outcome.st = "error"
\* buildTransaction was given the amount -1 with everything else in order
\* and failed with the range error, no request made
C31_Witness ==
    /\ entry = "buildTransaction"
    /\ "sourceAddress" \in DOMAIN params
    /\ params.amount = -1 /\ params.fee = 0 /\ params.blockToLive = 0
    /\ outcome = Thrown(RangeError)
    /\ trace = <<>>

\* the source_balance of the preprocess request at i of the trace
SentBalance(i) == trace[i].body.metadata.source_balance

\* C32: for every amount and fee buildAndSignTransaction sends to
\* preprocess a source_balance equal to amount + fee, and buildTransaction
\* forwards a caller-supplied sourceBalance unchanged in value; the default
\* 179999501 is sent only when the caller supplied no sourceBalance
C32_SourceBalanceSent ==
    Building =>
        \A i \in DOMAIN trace :
            IsReq(i, PRE) =>
                /\ entry = "buildAndSignTransaction"
                       => SentBalance(i) = Dec(params.amount + params.fee)
                /\ (entry = "buildTransaction" /\ params.sourceBalance # None)
                       => SentBalance(i) = Dec(params.sourceBalance[1])
                /\ SentBalance(i) = Dec(179999501)
                       => entry = "buildTransaction" /\ params.sourceBalance = None

\* C33: waitForTransaction called with a timeout of zero or less issues no
\* mempool lookup at all and fails with the timeout error
C33_NoLookupWithoutTime ==
    (entry = "waitForTransaction" /\ wTimeout <= 0) =>
        /\ nLookups = 0 /\ nSleeps = 0 /\ lookReq = Unset
        /\ pc = "done"
        /\ outcome = Thrown(TimeoutError(wHash))
\* waitForTransaction was given the timeout 0 for h2 and failed at once
C33_Witness ==
    /\ entry = "waitForTransaction"
    /\ wHash = "h2" /\ wTimeout = 0 /\ wInterval = 1
    /\ outcome = Thrown(TimeoutError("h2"))
    /\ nLookups = 0 /\ Elapsed = 0

\* C34: in waitForTransaction a lookup that was started before the timeout
\* elapsed and that succeeds is always returned to the caller as the
\* result, even when the timeout has already elapsed by the time the lookup
\* completes; a successful lookup is never turned into a timeout failure
C34_LateSuccessReturned ==
    (Monitoring /\ lastRes = "found") =>
        /\ pc = "done"
        /\ outcome.st = "value" /\ outcome.val = found
        /\ lastEv = "lookup"
\* the second lookup of a call was started in time, completed after the
\* timeout had elapsed, and its record was returned
C34_Witness ==
    /\ entry = "waitForTransaction"
    /\ wTimeout = 2 /\ nLookups = 2 /\ nSleeps = 1
    /\ lastRes = "found" /\ Elapsed > wTimeout /\ Elapsed - lastAwait < wTimeout
    /\ outcome = Returned([transaction |-> "tx1"])

\* ceil(t / i) for t > 0 and i > 0
Ceil(t, i) == (t + i - 1) \div i

\* C35: one call of waitForTransaction with timeout T > 0 and interval
\* I > 0 issues at least one and at most ceil(T / I) mempool lookups, all
\* for the hash it was given, and has at most one lookup outstanding at any
\* time: a lookup is issued only when none is awaited
C35_LookupCount ==
    /\ [](  (Monitoring /\ wTimeout > 0 /\ wInterval > 0) =>
                /\ nLookups >= 1
                /\ nLookups <= Ceil(wTimeout, wInterval)
                /\ lookHash = wHash
                /\ lookReq.body.transaction_identifier.hash = wHash
                /\ pc = "lookup" => lastEv = "lookup")
    /\ [][ (Monitoring /\ nLookups' # nLookups) =>
              /\ pc # "lookup" /\ pc' = "lookup"
              /\ nLookups' = nLookups + 1
              /\ lookReq'.body.transaction_identifier.hash = wHash ]_vars
\* a call with timeout 3 and interval 2 awaits its second lookup, and
\* ceil(3 / 2) is 2
C35_Witness ==
    /\ entry = "waitForTransaction"
    /\ wHash = "h2" /\ wTimeout = 3 /\ wInterval = 2
    /\ nLookups = 2 /\ pc = "lookup"
    /\ lookReq.body.transaction_identifier.hash = "h2"

\* C36: whether a request of the client fails or succeeds is decided by the
\* `code` field of the JSON body alone: a body without `code` is the value of
\* the request, and of the client method that made it, whatever the HTTP
\* status, and a body with `code` is a failure, of the request and of the
\* method, also under status 200
C36_CodeAloneDecides ==
    /\ \A i \in DOMAIN trace :
           (trace[i].t = "ret" /\ trace[i].out.kind = "body") =>
               /\ trace[i].res.ok <=> "code" \notin DOMAIN trace[i].out.body
               /\ trace[i].res.ok => trace[i].res.val = trace[i].out.body
    /\ (entry \in ClientMethods /\ pc = "done" /\ trace[2].out.kind = "body") =>
           /\ trace[2].out.status \in HttpStatuses
           /\ IF "code" \in DOMAIN trace[2].out.body
              THEN outcome.st = "error"
              ELSE outcome = Returned(trace[2].out.body)

\* a client method whose response had status 500 and a body without `code`
\* has returned that body
C36_Witness ==
    /\ entry \in ClientMethods /\ pc = "done" /\ Len(trace) = 2
    /\ trace[2].out.kind = "body" /\ trace[2].out.status = 500
    /\ "code" \notin DOMAIN trace[2].out.body
    /\ outcome = Returned(trace[2].out.body)

\* the offset of the first zero byte of the 16 bytes formatMemo returned
FirstZero(bytes) ==
    CHOOSE k \in 0..15 : bytes[k] = 0 /\ \A j \in 0..(k - 1) : bytes[j] # 0
\* the character with the code b
CharOfCode(b) == CHOOSE c \in Chars : CharCode[c] = b
\* the text the 16 bytes encode: the characters before the first zero byte
EncodedText(bytes) == [i \in 1..FirstZero(bytes) |-> CharOfCode(bytes[i - 1])]

\* C37: for every memo accepted by isValidMemo, the text that formatMemo
\* encodes is itself accepted by isValidMemo, also when the memo is longer
\* than 15 characters and is truncated
C37_EncodedTextValid ==
    (memoCall = "formatMemo" /\ IsValidMemo(memoArg)) =>
        IsValidMemo(EncodedText(memoRet))

\* createTransactionBytes returned a buffer for a call whose memo is not
\* empty, is accepted by isValidMemo and has at most 15 characters
ShortValidMemoEncoded ==
    /\ EncodedBytes
    /\ MemoText(bytesArg) # <<>>
    /\ IsValidMemo(MemoText(bytesArg))
    /\ Len(MemoText(bytesArg)) <= 15

\* C38: for every non-empty memo accepted by isValidMemo with at most 15
\* characters, bytes 144..159 of the buffer returned by
\* createTransactionBytes equal the 16 bytes returned by formatMemo for the
\* same memo
C38_MemoEncodingsAgree ==
    ShortValidMemoEncoded =>
        \A i \in 0..15 : bytesRet.val[144 + i] = FormatMemo(MemoText(bytesArg))[i]
====
